---- MODULE Spec2Model ----
(***************************************************************************)
(* SAP maintenance-order adaptor: the SAP client (live and simulator       *)
(* variants), the request translators and the MaintenanceService workflow  *)
(* (notification -> order -> verification read, and the status read).      *)
(*                                                                         *)
(* Conventions.  A Go string that the code indexes or builds with Sprintf  *)
(* (ids) is a sequence of one-character strings; other strings are TLA+    *)
(* strings.  A Go error is the sequence of the messages of its Unwrap      *)
(* chain, outermost first; nil is the empty sequence.  The wall clock is   *)
(* time.Now().Unix(), a count of seconds since the epoch (not negative).   *)
(***************************************************************************)
EXTENDS Integers, Sequences, FiniteSets, TLC

VARIABLES
    config,           \* Client.config, the SAPConfig NewClient was given
    simulatorMode,    \* Client.simulatorMode, fixed by NewClient
    clock,            \* time.Now().Unix()
    elapsed,          \* seconds the clock has advanced since Init
    pc,               \* position of the caller inside the service
    event,            \* ProcessMaintenanceOrderEvent: argument
    notificationReq,  \* ProcessMaintenanceOrderEvent: local
    notificationResp, \* CreateNotification's response, D part
    notificationID,   \* ProcessMaintenanceOrderEvent: local
    orderReq,         \* ProcessMaintenanceOrderEvent: local
    orderID,          \* ProcessMaintenanceOrderEvent: local / GetMaintenanceOrderStatus: argument
    orderResp,        \* CreateOrder's response, D part
    verifyResp,       \* GetOrder's response, D part
    err,              \* the error returned by the last gateway call
    ret,              \* what the service operation returned
    calls,            \* gateway calls issued by the running operation, in order
    inflight,         \* gateway calls issued and not yet returned
    pinned,           \* a GetOrder response a caller kept from an earlier call
    kept,             \* the translations a caller kept from an earlier submission
    outbox,           \* the completion events sent to the Digital Twin
    requests,         \* requests httpClient.Do sent for the running operation
    ctxDone,          \* ctx.Done() of the running operation is closed
    doomed,           \* the gateway call in flight was issued with ctx already done
    roundTrip,        \* what the network did for the last gateway call that returned
    monPc,            \* MonitorOrderStatus: position of its goroutine
    monOrder,         \* MonitorOrderStatus: argument orderID
    callback,         \* MonitorOrderStatus: argument callback, as the result it returns
    ticking,          \* the ticker is running (NewTicker .. Stop)
    tickC,            \* ticks waiting in ticker.C, a channel of capacity 1
    ticks,            \* periods of the ticker that have elapsed
    observed,         \* what the fetches of the monitor returned, in order
    invoked,          \* the views the callback was called with, in order
    monRet,           \* what MonitorOrderStatus returned
    handler,          \* the request handler that is waiting for the service
    request,          \* the last request: its handler and its body or path parameter
    httpResp,         \* the response written to the last request
    running,          \* the goroutine whose locals the service variables hold
    parked,           \* the locals of the goroutine that is not running
    settled           \* the plant system has completed the order for good

\* the variables of the client and of the service
serviceVars == <<config, simulatorMode, clock, elapsed, pc, event, notificationReq,
                 notificationResp, notificationID, orderReq, orderID, orderResp,
                 verifyResp, err, ret, calls, inflight, pinned, kept, outbox, requests, ctxDone,
                 doomed, roundTrip>>

\* the variables of a MonitorOrderStatus call
monitorVars == <<monPc, monOrder, callback, ticking, tickC, ticks, observed, invoked,
                 monRet>>

\* the variables of the HTTP handlers
handlerVars == <<handler, request, httpResp>>

\* the variables of the scheduler of two goroutines
schedVars == <<running, parked>>

\* the variables of the plant system
plantVars == <<settled>>

\* the variables of the callers of the service and of its surroundings

callerVars == <<monitorVars, handlerVars, schedVars, plantVars>>

vars == <<serviceVars, callerVars>>

----------------------------------------------------------------------------
(* Bounds *)

\* seconds the clock may advance in one behaviour
MaxElapsed == 3

\* seconds one Tick may advance the clock by
MaxStep == 2

\* periods of the ticker that may elapse in one behaviour
MaxTicks == 3

----------------------------------------------------------------------------
(* Strings, Sprintf and time formatting *)

DigitChars == <<"0", "1", "2", "3", "4", "5", "6", "7", "8", "9">>

\* strconv / %d for a non-negative integer: its decimal digits
RECURSIVE Digits(_)
Digits(n) == IF n < 10 THEN <<DigitChars[n + 1]>>
             ELSE Digits(n \div 10) \o <<DigitChars[(n % 10) + 1]>>

\* left padding with "0" up to a minimum width (the 0 flag of %03d)
RECURSIVE ZeroPad(_, _)
ZeroPad(s, w) == IF Len(s) >= w THEN s ELSE ZeroPad(<<"0">> \o s, w)

\* fmt.Sprintf("%03d", n)
Sprintf03d(n) == ZeroPad(Digits(n), 3)

\* a sequence of characters as one string (the %s verb)
RECURSIVE Str(_)
Str(s) == IF s = <<>> THEN "" ELSE Head(s) \o Str(Tail(s))

\* t.Format(time.RFC3339) of the instant t (Unix seconds, UTC): the fields
\* year, month, day, hour, minute, second that the layout prints
FormatRFC3339(t) ==
    LET days == t \div 86400
        secs == t % 86400
        z    == days + 719468
        era  == z \div 146097
        doe  == z - era * 146097
        yoe  == (doe - doe \div 1460 + doe \div 36524 - doe \div 146096) \div 365
        doy  == doe - (365 * yoe + yoe \div 4 - yoe \div 100)
        mp   == (5 * doy + 2) \div 153
        d    == doy - (153 * mp + 2) \div 5 + 1
        m    == IF mp < 10 THEN mp + 3 ELSE mp - 9
        y    == yoe + era * 400 + (IF m <= 2 THEN 1 ELSE 0)
    IN  <<y, m, d, secs \div 3600, (secs % 3600) \div 60, secs % 60>>

\* strconv.FormatFloat(d, 'f', -1, 64) of a duration given in tenths: the
\* shortest decimal that reads back as the same number
FormatFloat(tenths) ==
    IF tenths % 10 = 0 THEN Digits(tenths \div 10)
    ELSE Digits(tenths \div 10) \o <<".">> \o Digits(tenths % 10)

----------------------------------------------------------------------------
(* Errors *)

NoError == <<>>

\* fmt.Errorf(msg) without %w: a leaf error
Errorf(msg) == <<msg>>

\* fmt.Errorf with %v in place of %w: the same message, no Unwrap chain
WrapfFlattens(prefix, e) == <<prefix \o ": " \o e[1]>>

\* fmt.Errorf(prefix + ": %w", e): message prefix + ": " + e.Error(), Unwrap = e
Wrapf(prefix, e) == <<prefix \o ": " \o e[1]>> \o e

\* err.Error()
ErrorString(e) == e[1]

\* errors.Unwrap(err)
Unwrap(e) == Tail(e)

----------------------------------------------------------------------------
(* Data: the requester's events and the plant system's wire records *)

\* models.MaintenanceOrderEvent values the requester may send; a *time.Time
\* is a sequence of at most one instant (nil = <<>>); Duration is in tenths
Events ==
    { [EquipmentID |-> "10000045", FunctionalLocation |-> "", Plant |-> "1000",
       Description |-> "Replace pump seal", Priority |-> "",
       MaintenanceOrderType |-> "", PlannedStartTime |-> <<>>,
       PlannedEndTime |-> <<>>,
       Operations |-> <<[Text |-> "Disassemble pump", WorkCenter |-> "PUMP-WC01",
                         Duration |-> 40, DurationUnit |-> "H"]>>],
      [EquipmentID |-> "10000046", FunctionalLocation |-> "FL100-200-300",
       Plant |-> "2000", Description |-> "Inspect valve", Priority |-> "3",
       MaintenanceOrderType |-> "PM01", PlannedStartTime |-> <<1755763200>>,
       PlannedEndTime |-> <<1755792000>>,
       Operations |-> <<[Text |-> "Close valve", WorkCenter |-> "",
                         Duration |-> 5, DurationUnit |-> "H"],
                        [Text |-> "Inspect seat", WorkCenter |-> "VALVE-WC02",
                         Duration |-> 20, DurationUnit |-> "MIN"]>>] }

\* the zero value of models.MaintenanceOrderEvent
ZeroEvent ==
    [EquipmentID |-> "", FunctionalLocation |-> "", Plant |-> "",
     Description |-> "", Priority |-> "", MaintenanceOrderType |-> "",
     PlannedStartTime |-> <<>>, PlannedEndTime |-> <<>>, Operations |-> <<>>]

\* the zero value of models.SAPNotificationRequest
ZeroNotificationRequest ==
    [NotificationType |-> "", Description |-> "", Equipment |-> "",
     FunctionalLocation |-> "", Plant |-> "", Priority |-> ""]

\* the zero value of models.SAPOrderRequest
ZeroOrderRequest ==
    [MaintenanceOrderType |-> "", Description |-> "", Equipment |-> "",
     FunctionalLocation |-> "", Plant |-> "", MaintenancePlanningPlant |-> "",
     Priority |-> "", MaintOrdBasicStartDateTime |-> <<>>,
     MaintOrdBasicEndDateTime |-> <<>>, MaintenanceNotification |-> <<>>,
     ToMaintenanceOrderOperation |-> <<>>]

\* the zero value of models.SAPOrderResponse.D
ZeroOrder ==
    [MaintenanceOrder |-> <<>>, MaintenanceOrderType |-> "", Description |-> "",
     Equipment |-> "", Plant |-> "", OrderStatus |-> "",
     MaintOrdBasicStartDateTime |-> <<>>, MaintOrdBasicEndDateTime |-> <<>>,
     MaintenanceNotification |-> <<>>, MetadataID |-> "",
     Operations |-> <<>>]

\* the zero value of models.SAPNotificationResponse.D
ZeroNotification == [Notification |-> <<>>, Description |-> "", Plant |-> ""]

----------------------------------------------------------------------------
(* Workflow translators (package sap) *)

\* the notification request stamped with the second it was made in
ConvertNotificationRequestStamped(e) ==
    [NotificationType   |-> "M1",
     Description        |-> e.Description \o " @" \o ToString(clock),
     Equipment          |-> e.EquipmentID,
     FunctionalLocation |-> e.FunctionalLocation,
     Plant              |-> e.Plant,
     Priority           |-> e.Priority]

ConvertMaintenanceOrderEventToNotificationRequest(e) ==
    [NotificationType   |-> "M1",
     Description        |-> e.Description,
     Equipment          |-> e.EquipmentID,
     FunctionalLocation |-> e.FunctionalLocation,
     Plant              |-> e.Plant,
     Priority           |-> e.Priority]

\* an operation line that leaves the plant to the gateway's default
ConvertOperationDefaultPlant(e, op) ==
    [OperationText             |-> op.Text,
     WorkCenter                |-> op.WorkCenter,
     Plant                     |-> "",
     OperationControlKey       |-> e.MaintenanceOrderType,
     OperationStandardDuration |-> FormatFloat(op.Duration),
     OperationDurationUnit     |-> op.DurationUnit]

\* one models.SAPOrderOperation per models.MaintenanceOperation
ConvertOperation(e, op) ==
    [OperationText             |-> op.Text,
     WorkCenter                |-> op.WorkCenter,
     Plant                     |-> e.Plant,
     OperationControlKey       |-> e.MaintenanceOrderType,
     OperationStandardDuration |-> FormatFloat(op.Duration),
     OperationDurationUnit     |-> op.DurationUnit]

\* the order request without its notification reference
ConvertOrderRequestDropsReference(e, nid) ==
    [MaintenanceOrderType     |-> e.MaintenanceOrderType,
     Description              |-> e.Description,
     Equipment                |-> e.EquipmentID,
     FunctionalLocation       |-> e.FunctionalLocation,
     Plant                    |-> e.Plant,
     MaintenancePlanningPlant |-> e.Plant,
     Priority                 |-> e.Priority,
     MaintOrdBasicStartDateTime |->
         IF e.PlannedStartTime # <<>> THEN FormatRFC3339(e.PlannedStartTime[1])
         ELSE <<>>,
     MaintOrdBasicEndDateTime |->
         IF e.PlannedEndTime # <<>> THEN FormatRFC3339(e.PlannedEndTime[1])
         ELSE <<>>,
     MaintenanceNotification  |-> <<>>,
     ToMaintenanceOrderOperation |->
         [i \in 1..Len(e.Operations) |-> ConvertOperation(e, e.Operations[i])]]

ConvertMaintenanceOrderEventToOrderRequest(e, nid) ==
    [MaintenanceOrderType     |-> e.MaintenanceOrderType,
     Description              |-> e.Description,
     Equipment                |-> e.EquipmentID,
     FunctionalLocation       |-> e.FunctionalLocation,
     Plant                    |-> e.Plant,
     MaintenancePlanningPlant |-> e.Plant,
     Priority                 |-> e.Priority,
     MaintOrdBasicStartDateTime |->
         IF e.PlannedStartTime # <<>> THEN FormatRFC3339(e.PlannedStartTime[1])
         ELSE <<>>,
     MaintOrdBasicEndDateTime |->
         IF e.PlannedEndTime # <<>> THEN FormatRFC3339(e.PlannedEndTime[1])
         ELSE <<>>,
     MaintenanceNotification  |-> nid,
     ToMaintenanceOrderOperation |->
         [i \in 1..Len(e.Operations) |-> ConvertOperation(e, e.Operations[i])]]

----------------------------------------------------------------------------
(* Translators of package models, the copies the tests call *)

models_ConvertMaintenanceOrderEventToNotificationRequest(e) ==
    [NotificationType   |-> "M1",
     Description        |-> e.Description,
     Equipment          |-> e.EquipmentID,
     FunctionalLocation |-> e.FunctionalLocation,
     Plant              |-> e.Plant,
     Priority           |-> e.Priority]

\* an operation line whose duration is left at zero
models_ConvertOperationNoDuration(e, op) ==
    [OperationText             |-> op.Text,
     WorkCenter                |-> op.WorkCenter,
     Plant                     |-> e.Plant,
     OperationControlKey       |-> e.MaintenanceOrderType,
     OperationStandardDuration |-> FormatFloat(0),
     OperationDurationUnit     |-> op.DurationUnit]

\* the body of the loop over event.Operations: sapOp
models_ConvertOperation(e, op) ==
    [OperationText             |-> op.Text,
     WorkCenter                |-> op.WorkCenter,
     Plant                     |-> e.Plant,
     OperationControlKey       |-> e.MaintenanceOrderType,
     OperationStandardDuration |-> FormatFloat(op.Duration),
     OperationDurationUnit     |-> op.DurationUnit]

\* the loop over event.Operations from its i-th turn on: req after the appends
RECURSIVE models_AppendOperations(_, _, _)
models_AppendOperations(req, e, i) ==
    IF i > Len(e.Operations) THEN req
    ELSE models_AppendOperations(
            [req EXCEPT !.ToMaintenanceOrderOperation =
                            Append(@, models_ConvertOperation(e, e.Operations[i]))],
            e, i + 1)

models_ConvertMaintenanceOrderEventToOrderRequest(e, nid) ==
    LET req0 == [ZeroOrderRequest EXCEPT
                    !.MaintenanceOrderType     = e.MaintenanceOrderType,
                    !.Description              = e.Description,
                    !.Equipment                = e.EquipmentID,
                    !.FunctionalLocation       = e.FunctionalLocation,
                    !.Plant                    = e.Plant,
                    !.MaintenancePlanningPlant = e.Plant,
                    !.Priority                 = e.Priority,
                    !.MaintenanceNotification  = nid]
        req1 == IF e.PlannedStartTime # <<>>
                THEN [req0 EXCEPT !.MaintOrdBasicStartDateTime =
                                      FormatRFC3339(e.PlannedStartTime[1])]
                ELSE req0
        req2 == IF e.PlannedEndTime # <<>>
                THEN [req1 EXCEPT !.MaintOrdBasicEndDateTime =
                                      FormatRFC3339(e.PlannedEndTime[1])]
                ELSE req1
    IN  models_AppendOperations(req2, e, 1)

----------------------------------------------------------------------------
(* SAP client, simulator variant *)

\* the operation lines createMockOrderResponse builds from the request
MockOperations(req, oid) ==
    [i \in 1..Len(req.ToMaintenanceOrderOperation) |->
        LET op  == req.ToMaintenanceOrderOperation[i]
            opn == ZeroPad(Digits(i * 10), 4)
        IN  [MaintenanceOrder          |-> oid,
             MaintenanceOrderOperation |-> opn,
             OperationText             |-> op.OperationText,
             WorkCenter                |-> op.WorkCenter,
             OperationControlKey       |-> op.OperationControlKey,
             OperationStandardDuration |-> op.OperationStandardDuration,
             OperationDurationUnit     |-> op.OperationDurationUnit,
             OperationStatus           |-> "",
             ActualWorkQuantity        |-> <<>>,
             WorkQuantityUnit          |-> "",
             MetadataID |-> ".../A_MaintenanceOrderOperation(MaintenanceOrder='"
                            \o Str(oid) \o "',MaintenanceOrderOperation='"
                            \o Str(opn) \o "')"]]

\* the notification id taken from four digits of the clock
createMockNotificationResponseWide(req, now) ==
    [Notification |-> <<"2", "0", "0", "0", "0", "0">> \o Sprintf03d(now % 10000),
     Description  |-> req.Description,
     Plant        |-> req.Plant]

createMockNotificationResponse(req, now) ==
    [Notification |-> <<"2", "0", "0", "0", "0", "0">> \o Sprintf03d(now % 1000),
     Description  |-> req.Description,
     Plant        |-> req.Plant]

createMockOrderResponse(req, now) ==
    LET oid == <<"4", "0", "0", "0", "0", "0">> \o Sprintf03d(now % 1000)
    IN  [MaintenanceOrder           |-> oid,
         MaintenanceOrderType       |-> req.MaintenanceOrderType,
         Description                |-> req.Description,
         Equipment                  |-> req.Equipment,
         Plant                      |-> req.Plant,
         OrderStatus                |-> "CRTD",
         MaintOrdBasicStartDateTime |-> req.MaintOrdBasicStartDateTime,
         MaintOrdBasicEndDateTime   |-> req.MaintOrdBasicEndDateTime,
         MaintenanceNotification    |-> req.MaintenanceNotification,
         MetadataID |-> ".../A_MaintenanceOrder('" \o Str(oid) \o "')",
         Operations |-> MockOperations(req, oid)]

\* the switch on the order id's first byte
MockStatusFirstChar(oid) ==
    IF Len(oid) > 0
    THEN LET firstDigit == oid[1]
         IN  CASE firstDigit \in {"0", "1", "2"} -> "CRTD"
               [] firstDigit \in {"3", "4", "5"} -> "REL"
               [] firstDigit \in {"6", "7", "8"} -> "TECO"
               [] firstDigit = "9"               -> "CLSD"
               [] OTHER                         -> "CRTD"
    ELSE "CRTD"

\* the switch without its last case
MockStatusNoClosed(oid) ==
    IF Len(oid) > 0
    THEN LET lastDigit == oid[Len(oid)]
         IN  CASE lastDigit \in {"0", "1", "2"} -> "CRTD"
               [] lastDigit \in {"3", "4", "5"} -> "REL"
               [] lastDigit \in {"6", "7", "8"} -> "TECO"
               [] OTHER                         -> "CRTD"
    ELSE "CRTD"

\* the switch on the order id's last byte
MockStatus(oid) ==
    IF Len(oid) > 0
    THEN LET lastDigit == oid[Len(oid)]
         IN  CASE lastDigit \in {"0", "1", "2"} -> "CRTD"
               [] lastDigit \in {"3", "4", "5"} -> "REL"
               [] lastDigit \in {"6", "7", "8"} -> "TECO"
               [] lastDigit = "9"               -> "CLSD"
               [] OTHER                         -> "CRTD"
    ELSE "CRTD"

\* the order document of the simulator's status read
MockOrderDocument(oid, status, start, end) ==
    [MaintenanceOrder           |-> oid,
     MaintenanceOrderType       |-> "PM01",
     Description                |-> "Mock maintenance order",
     Equipment                  |-> "10000045",
     Plant                      |-> "1000",
     OrderStatus                |-> status,
     MaintOrdBasicStartDateTime |-> start,
     MaintOrdBasicEndDateTime   |-> end,
     MaintenanceNotification    |-> <<"2", "0", "0", "0", "0", "0", "1", "2", "3">>,
     MetadataID |-> ".../A_MaintenanceOrder('" \o Str(oid) \o "')",
     Operations |->
        <<[MaintenanceOrder          |-> oid,
           MaintenanceOrderOperation |-> <<"0", "0", "1", "0">>,
           OperationText             |-> "Mock operation",
           WorkCenter                |-> "MOCK-WC01",
           OperationControlKey       |-> "PM01",
           OperationStandardDuration |-> <<"4">>,
           OperationDurationUnit     |-> "H",
           OperationStatus           |-> "CNF",
           ActualWorkQuantity        |-> <<"4", ".", "0">>,
           WorkQuantityUnit          |-> "H",
           MetadataID |-> ".../A_MaintenanceOrderOperation(MaintenanceOrder='"
                          \o Str(oid) \o "',MaintenanceOrderOperation='0010')"]>>]

\* a status read whose status moves on with the clock
createMockOrderStatusResponseProgressing(oid, now) ==
    MockOrderDocument(oid, IF now % 2 = 0 THEN "REL" ELSE "TECO",
                      FormatRFC3339(now), FormatRFC3339(now + 8 * 3600))

createMockOrderStatusResponse(oid, now) ==
    MockOrderDocument(oid, MockStatus(oid), FormatRFC3339(now),
                      FormatRFC3339(now + 8 * 3600))

----------------------------------------------------------------------------
(* SAP client, live variant: what httpClient.Do and the plant system answer *)

\* errors of the transport
TransportErrors == { <<"dial tcp: connection refused">>,
                     <<"context deadline exceeded">> }

\* error of io.ReadAll on a broken body
ReadError == <<"unexpected EOF">>

\* error of json.Unmarshal on a body that is not the expected document
JSONError == <<"unexpected end of JSON input">>

\* HTTP status codes the plant system answers with
StatusCodes == {200, 201, 404, 500}

\* bodies that are not JSON documents
PlainBodies == {"", "Not Found"}

\* notification and order ids the plant system assigns
LiveNotificationIDs == { <<>>, <<"1", "0", "7">> }
LiveOrderIDs == { <<"4", "0", "1">>, <<"4", "0", "9">> }

\* statuses the plant system reports
LiveStatuses == {"CRTD", "REL", "TECO", "CLSD", ""}

\* notification documents of the plant system
LiveNotifications ==
    { [ZeroNotification EXCEPT !.Notification = n] : n \in LiveNotificationIDs }

\* an operation line of the plant system with the given number, confirmation
\* status and worked quantity
LiveOperation(oid, n, st, qty) ==
    [MaintenanceOrder          |-> oid,
     MaintenanceOrderOperation |-> n,
     OperationText             |-> "Replace seal " \o Str(n),
     WorkCenter                |-> "MECH-01",
     OperationControlKey       |-> "PM01",
     OperationStandardDuration |-> <<"2">>,
     OperationDurationUnit     |-> "H",
     OperationStatus           |-> st,
     ActualWorkQuantity        |-> qty,
     WorkQuantityUnit          |-> "H",
     MetadataID                |-> ""]

\* order documents with operation lines; a status outside the vocabulary, a
\* date that does not exist (30 February), a month that does not exist, and
\* worked quantities that are a decimal, no number, and empty
DetailedOrders ==
    { [MaintenanceOrder           |-> <<"4", "0", "1">>,
       MaintenanceOrderType       |-> "PM01",
       Description                |-> "Pump overhaul",
       Equipment                  |-> "10000045",
       Plant                      |-> "1000",
       OrderStatus                |-> "teco",
       MaintOrdBasicStartDateTime |-> <<2025, 8, 21, 10, 0, 0>>,
       MaintOrdBasicEndDateTime   |-> <<2025, 2, 30, 0, 0, 0>>,
       MaintenanceNotification    |-> <<"1", "0", "7">>,
       MetadataID                 |-> "",
       Operations |->
          << LiveOperation(<<"4", "0", "1">>, <<"1", "0">>, "CNF", <<"2", ".", "5">>),
             LiveOperation(<<"4", "0", "1">>, <<"2", "0">>, "", <<"a", "b", "c">>) >>],
      [MaintenanceOrder           |-> <<"4", "0", "9">>,
       MaintenanceOrderType       |-> "PM01",
       Description                |-> "Valve inspection",
       Equipment                  |-> "10000046",
       Plant                      |-> "2000",
       OrderStatus                |-> "CLSD",
       MaintOrdBasicStartDateTime |-> <<2025, 13, 1, 0, 0, 0>>,
       MaintOrdBasicEndDateTime   |-> <<>>,
       MaintenanceNotification    |-> <<>>,
       MetadataID                 |-> "",
       Operations |->
          << LiveOperation(<<"4", "0", "9">>, <<"1", "0">>, "CNF", <<>>) >>] }

\* order documents of the plant system
LiveOrders ==
    { [ZeroOrder EXCEPT !.MaintenanceOrder = o, !.OrderStatus = st]
        : o \in LiveOrderIDs, st \in LiveStatuses }
    \cup DetailedOrders

\* the text of a JSON body
NotificationJSON(d) == "{\"d\":{\"Notification\":\"" \o Str(d.Notification) \o "\"}}"
OrderJSON(d) == "{\"d\":{\"MaintenanceOrder\":\"" \o Str(d.MaintenanceOrder)
                \o "\",\"OrderStatus\":\"" \o d.OrderStatus \o "\"}}"

\* outcomes of one round trip: Do fails, ReadAll fails, or a status code with
\* a body that json.Unmarshal accepts (parses, d) or not
HTTPFailures(zero) ==
    { [kind |-> "sendErr", cause |-> c, code |-> 0, raw |-> "",
       parses |-> FALSE, d |-> zero] : c \in TransportErrors }
    \cup { [kind |-> "readErr", cause |-> ReadError, code |-> c, raw |-> "",
            parses |-> FALSE, d |-> zero] : c \in {200} }
    \cup { [kind |-> "response", cause |-> NoError, code |-> c, raw |-> b,
            parses |-> FALSE, d |-> zero] : c \in StatusCodes, b \in PlainBodies }

NotificationOutcomes ==
    HTTPFailures(ZeroNotification)
    \cup { [kind |-> "response", cause |-> NoError, code |-> c,
            raw |-> NotificationJSON(d), parses |-> TRUE, d |-> d]
             : c \in {200, 201}, d \in LiveNotifications }

OrderOutcomes ==
    HTTPFailures(ZeroOrder)
    \cup { [kind |-> "response", cause |-> NoError, code |-> c,
            raw |-> OrderJSON(d), parses |-> TRUE, d |-> d]
             : c \in {200, 201}, d \in LiveOrders }

\* url.Parse, as http.NewRequestWithContext calls it, rejects the URL built
\* from the base URL and the order id: no scheme before the first colon, or
\* a percent sign that does not start an escape (the id is followed by "')")
HexChars == {DigitChars[k] : k \in 1..10} \cup {"a", "b", "c", "d", "e", "f",
                                                "A", "B", "C", "D", "E", "F"}
NewRequestFails(base, id) ==
    \/ base = "://sap.example.com"
    \/ \E i \in 1..Len(id) :
          /\ id[i] = "%"
          /\ ~(i + 2 <= Len(id) /\ id[i + 1] \in HexChars /\ id[i + 2] \in HexChars)

\* the error of url.Parse
URLError == <<"parse: invalid URL">>

\* the error of a round trip whose context is done
ContextCanceled == <<"context canceled">>

\* no round trip
NoRoundTrip == [kind |-> "none", cause |-> NoError, code |-> 0, raw |-> "",
                parses |-> FALSE, d |-> <<>>]

\* what one client call can see of the network: nothing in simulator mode,
\* nothing but the error of NewRequestWithContext when the URL does not
\* parse, nothing but the context's error when the context was done before
\* the call, and otherwise one round trip, which a context that is done by
\* the time it ends may or may not have aborted
RoundTrips(sim, base, id, done, atCall, outcomes) ==
    LET zero   == (CHOOSE o \in outcomes : TRUE).d
        cancel == [kind |-> "sendErr", cause |-> ContextCanceled, code |-> 0,
                   raw |-> "", parses |-> FALSE, d |-> zero]
    IN  IF sim
        THEN { NoRoundTrip }
        ELSE IF NewRequestFails(base, id)
        THEN { [kind |-> "newRequestErr", cause |-> URLError, code |-> 0, raw |-> "",
                parses |-> FALSE, d |-> zero] }
        ELSE IF done /\ atCall THEN {cancel}
        ELSE IF done THEN outcomes \cup {cancel}
        ELSE outcomes

\* a send that failed is repeated once
SentWithRetry(http) ==
    IF http.kind \in {"none", "newRequestErr"} THEN 0
    ELSE IF http.kind = "sendErr" THEN 2 ELSE 1

\* the requests httpClient.Do sent in one client call
Sent(http) == IF http.kind \in {"none", "newRequestErr"} THEN 0 ELSE 1

\* Client.CreateNotification: (response, error); a pointer is a sequence of
\* at most one record
CreateNotification(sim, req, now, http) ==
    IF sim
    THEN [resp |-> <<createMockNotificationResponse(req, now)>>, err |-> NoError]
    ELSE IF http.kind = "newRequestErr"
    THEN [resp |-> <<>>, err |-> Wrapf("failed to create request", http.cause)]
    ELSE IF http.kind = "sendErr"
    THEN [resp |-> <<>>, err |-> Wrapf("failed to send request", http.cause)]
    ELSE IF http.kind = "readErr"
    THEN [resp |-> <<>>, err |-> Wrapf("failed to read response", http.cause)]
    ELSE IF http.code # 201
    THEN [resp |-> <<>>,
          err |-> Errorf("SAP API returned status " \o ToString(http.code)
                         \o ": " \o http.raw)]
    ELSE IF ~http.parses
    THEN [resp |-> <<>>, err |-> Wrapf("failed to parse response", JSONError)]
    ELSE [resp |-> <<http.d>>, err |-> NoError]

\* Client.CreateOrder
CreateOrder(sim, req, now, http) ==
    IF sim
    THEN [resp |-> <<createMockOrderResponse(req, now)>>, err |-> NoError]
    ELSE IF http.kind = "newRequestErr"
    THEN [resp |-> <<>>, err |-> Wrapf("failed to create request", http.cause)]
    ELSE IF http.kind = "sendErr"
    THEN [resp |-> <<>>, err |-> Wrapf("failed to send request", http.cause)]
    ELSE IF http.kind = "readErr"
    THEN [resp |-> <<>>, err |-> Wrapf("failed to read response", http.cause)]
    ELSE IF http.code # 201
    THEN [resp |-> <<>>,
          err |-> Errorf("SAP API returned status " \o ToString(http.code)
                         \o ": " \o http.raw)]
    ELSE IF ~http.parses
    THEN [resp |-> <<>>, err |-> Wrapf("failed to parse response", JSONError)]
    ELSE [resp |-> <<http.d>>, err |-> NoError]

\* GetOrder taking every 2xx status for success
GetOrderAccepts2xx(sim, oid, now, http) ==
    IF sim
    THEN [resp |-> <<createMockOrderStatusResponse(oid, now)>>, err |-> NoError]
    ELSE IF http.kind = "newRequestErr"
    THEN [resp |-> <<>>, err |-> Wrapf("failed to create request", http.cause)]
    ELSE IF http.kind = "sendErr"
    THEN [resp |-> <<>>, err |-> Wrapf("failed to send request", http.cause)]
    ELSE IF http.kind = "readErr"
    THEN [resp |-> <<>>, err |-> Wrapf("failed to read response", http.cause)]
    ELSE IF http.code \notin {200, 201}
    THEN [resp |-> <<>>,
          err |-> Errorf("SAP API returned status " \o ToString(http.code)
                         \o ": " \o http.raw)]
    ELSE IF ~http.parses
    THEN [resp |-> <<>>, err |-> Wrapf("failed to parse response", JSONError)]
    ELSE [resp |-> <<http.d>>, err |-> NoError]

\* a client that answers from the order it read before, when it has read
\* the order before
GetOrderCached(sim, oid, now, http) ==
    IF pinned # <<>> /\ pinned[1].MaintenanceOrder = oid
    THEN [resp |-> pinned, err |-> NoError]
    ELSE IF sim
    THEN [resp |-> <<createMockOrderStatusResponse(oid, now)>>, err |-> NoError]
    ELSE IF http.kind = "newRequestErr"
    THEN [resp |-> <<>>, err |-> Wrapf("failed to create request", http.cause)]
    ELSE IF http.kind = "sendErr"
    THEN [resp |-> <<>>, err |-> Wrapf("failed to send request", http.cause)]
    ELSE IF http.kind = "readErr"
    THEN [resp |-> <<>>, err |-> Wrapf("failed to read response", http.cause)]
    ELSE IF http.code # 200
    THEN [resp |-> <<>>,
          err |-> Errorf("SAP API returned status " \o ToString(http.code)
                         \o ": " \o http.raw)]
    ELSE IF ~http.parses
    THEN [resp |-> <<>>, err |-> Wrapf("failed to parse response", JSONError)]
    ELSE [resp |-> <<http.d>>, err |-> NoError]

\* Client.GetOrder
GetOrder(sim, oid, now, http) ==
    IF sim
    THEN [resp |-> <<createMockOrderStatusResponse(oid, now)>>, err |-> NoError]
    ELSE IF http.kind = "newRequestErr"
    THEN [resp |-> <<>>, err |-> Wrapf("failed to create request", http.cause)]
    ELSE IF http.kind = "sendErr"
    THEN [resp |-> <<>>, err |-> Wrapf("failed to send request", http.cause)]
    ELSE IF http.kind = "readErr"
    THEN [resp |-> <<>>, err |-> Wrapf("failed to read response", http.cause)]
    ELSE IF http.code # 200
    THEN [resp |-> <<>>,
          err |-> Errorf("SAP API returned status " \o ToString(http.code)
                         \o ": " \o http.raw)]
    ELSE IF ~http.parses
    THEN [resp |-> <<>>, err |-> Wrapf("failed to parse response", JSONError)]
    ELSE [resp |-> <<http.d>>, err |-> NoError]

----------------------------------------------------------------------------
(* Order -> status view *)

DigitValue(c) == CHOOSE n \in 0..9 : DigitChars[n + 1] = c

\* the number a run of decimal digits denotes; -1 if it is not such a run
RECURSIVE ParseDigits(_)
ParseDigits(s) ==
    IF s = <<>> THEN -1
    ELSE IF \E i \in 1..Len(s) : s[i] \notin {DigitChars[k] : k \in 1..10} THEN -1
    ELSE IF Len(s) = 1 THEN DigitValue(s[1])
    ELSE ParseDigits(SubSeq(s, 1, Len(s) - 1)) * 10 + DigitValue(s[Len(s)])

\* strconv.ParseFloat(s, 64) for decimals with at most one fractional digit:
\* ok and the value in tenths
ParseFloat(s) ==
    LET dots == {i \in 1..Len(s) : s[i] = "."}
    IN  IF dots = {}
        THEN [ok |-> ParseDigits(s) >= 0, val |-> ParseDigits(s) * 10]
        ELSE IF Cardinality(dots) > 1 \/ Len(s) = 1
        THEN [ok |-> FALSE, val |-> 0]
        ELSE LET i  == CHOOSE j \in dots : TRUE
                 ip == SubSeq(s, 1, i - 1)
                 fp == SubSeq(s, i + 1, Len(s))
                 iv == IF ip = <<>> THEN 0 ELSE ParseDigits(ip)
                 fv == IF fp = <<>> THEN 0 ELSE ParseDigits(fp)
             IN  [ok |-> iv >= 0 /\ fv >= 0 /\ Len(fp) <= 1, val |-> iv * 10 + fv]

DaysInMonth(y, m) ==
    IF m \in {4, 6, 9, 11} THEN 30
    ELSE IF m # 2 THEN 31
    ELSE IF (y % 4 = 0 /\ y % 100 # 0) \/ y % 400 = 0 THEN 29 ELSE 28

\* a parser that rolls a day or month that does not exist over into the
\* following month or year instead of rejecting it
ParseRFC3339RollsOver(s) ==
    IF Len(s) # 6 THEN <<>>
    ELSE IF ~(/\ s[2] \in 1..12 /\ s[3] \in 1..31
              /\ s[4] \in 0..23 /\ s[5] \in 0..59 /\ s[6] \in 0..59) THEN <<>>
    ELSE LET y   == IF s[2] <= 2 THEN s[1] - 1 ELSE s[1]
             era == y \div 400
             yoe == y - era * 400
             mp  == IF s[2] > 2 THEN s[2] - 3 ELSE s[2] + 9
             doy == (153 * mp + 2) \div 5 + s[3] - 1
             doe == yoe * 365 + yoe \div 4 - yoe \div 100 + doy
             days == era * 146097 + doe - 719468
         IN  <<days * 86400 + s[4] * 3600 + s[5] * 60 + s[6]>>

\* time.Parse(time.RFC3339, s): a pointer to the instant, nil on error
ParseRFC3339(s) ==
    IF Len(s) # 6 THEN <<>>
    ELSE IF ~(/\ s[2] \in 1..12 /\ s[3] \in 1..DaysInMonth(s[1], s[2])
              /\ s[4] \in 0..23 /\ s[5] \in 0..59 /\ s[6] \in 0..59) THEN <<>>
    ELSE LET y   == IF s[2] <= 2 THEN s[1] - 1 ELSE s[1]
             era == y \div 400
             yoe == y - era * 400
             mp  == IF s[2] > 2 THEN s[2] - 3 ELSE s[2] + 9
             doy == (153 * mp + 2) \div 5 + s[3] - 1
             doe == yoe * 365 + yoe \div 4 - yoe \div 100 + doy
             days == era * 146097 + doe - 719468
         IN  <<days * 86400 + s[4] * 3600 + s[5] * 60 + s[6]>>

\* a view whose status is kept within the known vocabulary
ConvertSAPOrderResponseToStatusNormalised(d) ==
    [OrderID         |-> d.MaintenanceOrder,
     Status          |-> IF d.OrderStatus \in {"CRTD", "REL", "TECO", "CLSD"}
                         THEN d.OrderStatus ELSE "CRTD",
     Description     |-> d.Description,
     EquipmentID     |-> d.Equipment,
     Plant           |-> d.Plant,
     NotificationID  |-> d.MaintenanceNotification,
     ActualStartTime |-> IF d.MaintOrdBasicStartDateTime # <<>>
                         THEN ParseRFC3339(d.MaintOrdBasicStartDateTime) ELSE <<>>,
     ActualEndTime   |-> IF d.MaintOrdBasicEndDateTime # <<>>
                         THEN ParseRFC3339(d.MaintOrdBasicEndDateTime) ELSE <<>>,
     Operations      |->
        [i \in 1..Len(d.Operations) |->
            LET op == d.Operations[i]
            IN  [OperationID        |-> op.MaintenanceOrderOperation,
                 Text               |-> op.OperationText,
                 Status             |-> op.OperationStatus,
                 ActualWorkQuantity |->
                     IF op.ActualWorkQuantity # <<>> /\ ParseFloat(op.ActualWorkQuantity).ok
                     THEN ParseFloat(op.ActualWorkQuantity).val ELSE 0,
                 WorkQuantityUnit   |-> op.WorkQuantityUnit]]]

ConvertSAPOrderResponseToStatus(d) ==
    [OrderID         |-> d.MaintenanceOrder,
     Status          |-> d.OrderStatus,
     Description     |-> d.Description,
     EquipmentID     |-> d.Equipment,
     Plant           |-> d.Plant,
     NotificationID  |-> d.MaintenanceNotification,
     ActualStartTime |-> IF d.MaintOrdBasicStartDateTime # <<>>
                         THEN ParseRFC3339(d.MaintOrdBasicStartDateTime) ELSE <<>>,
     ActualEndTime   |-> IF d.MaintOrdBasicEndDateTime # <<>>
                         THEN ParseRFC3339(d.MaintOrdBasicEndDateTime) ELSE <<>>,
     Operations      |->
        [i \in 1..Len(d.Operations) |->
            LET op == d.Operations[i]
            IN  [OperationID        |-> op.MaintenanceOrderOperation,
                 Text               |-> op.OperationText,
                 Status             |-> op.OperationStatus,
                 ActualWorkQuantity |->
                     IF op.ActualWorkQuantity # <<>> /\ ParseFloat(op.ActualWorkQuantity).ok
                     THEN ParseFloat(op.ActualWorkQuantity).val ELSE 0,
                 WorkQuantityUnit   |-> op.WorkQuantityUnit]]]

----------------------------------------------------------------------------
(* Construction *)

\* config.SAPConfig values (the fields NewClient reads)
Configs == [SimulatorMode : BOOLEAN,
            BaseURL : {"", "simulator", "https://sap.example.com/odata",
                       "://sap.example.com"}]

\* the variant follows the flag alone
NewClientFlagOnly(cfg) == cfg.SimulatorMode

\* NewClient: the variant of the client
NewClient(cfg) == cfg.SimulatorMode \/ cfg.BaseURL = "" \/ cfg.BaseURL = "simulator"

\* instants at which the process may start
ClockStarts == {0, 7, 996, 999, 1755772494}

\* order ids a caller may ask the status of
FetchIDs == { <<"4", "0", DigitChars[k]>> : k \in 1..10 }
            \cup { <<>>, <<"4", "0", "A">>, <<"4", "0", "%">> }

\* nothing returned yet
NoReturn == [op |-> "", response |-> <<>>, status |-> <<>>, err |-> NoError]

\* the locals of the goroutine that is running, and its context
Frame ==
    [pc |-> pc, event |-> event, notificationReq |-> notificationReq,
     notificationResp |-> notificationResp, notificationID |-> notificationID,
     orderReq |-> orderReq, orderID |-> orderID, orderResp |-> orderResp,
     verifyResp |-> verifyResp, err |-> err, ret |-> ret, calls |-> calls,
     inflight |-> inflight, requests |-> requests, ctxDone |-> ctxDone,
     doomed |-> doomed, roundTrip |-> roundTrip]

Init ==
    /\ config \in Configs
    /\ simulatorMode = NewClient(config)
    /\ clock \in ClockStarts
    /\ elapsed = 0
    /\ pc = "idle"
    /\ event = ZeroEvent
    /\ notificationReq = ZeroNotificationRequest
    /\ notificationResp = <<>>
    /\ notificationID = <<>>
    /\ orderReq = ZeroOrderRequest
    /\ orderID = <<>>
    /\ orderResp = <<>>
    /\ verifyResp = <<>>
    /\ err = NoError
    /\ ret = NoReturn
    /\ calls = <<>>
    /\ inflight = {}
    /\ pinned = <<>>
    /\ kept = <<>>
    /\ outbox = {}
    /\ requests = 0
    /\ ctxDone = FALSE
    /\ doomed = FALSE
    /\ roundTrip = NoRoundTrip
    /\ monPc = "idle"
    /\ monOrder = <<>>
    /\ callback = <<>>
    /\ ticking = FALSE
    /\ tickC = 0
    /\ ticks = 0
    /\ observed = <<>>
    /\ invoked = <<>>
    /\ monRet = <<>>
    /\ handler = ""
    /\ request = [route |-> "", binds |-> TRUE, event |-> ZeroEvent]
    /\ httpResp = [code |-> 0, error |-> "", details |-> ""]
    /\ running = "caller"
    /\ parked = Frame
    /\ settled = FALSE

\* the wall clock advances
Tick ==
    /\ \E d \in 1..MaxStep :
          /\ elapsed + d <= MaxElapsed
          /\ clock' = clock + d
          /\ elapsed' = elapsed + d
    /\ UNCHANGED <<roundTrip, config, ctxDone, simulatorMode, pc, event, notificationReq, notificationResp,
                   notificationID, orderReq, orderID, orderResp, verifyResp, err,
                   ret, calls, inflight, pinned, kept, outbox, requests, doomed>>

----------------------------------------------------------------------------
(* MaintenanceService.ProcessMaintenanceOrderEvent *)

\* one gateway call: the client method and the id it is given (the
\* notification reference of a CreateOrder, the order id of a GetOrder)
Call(op, arg) == [op |-> op, arg |-> arg]

\* return nil, err
Failure(op, e) == [op |-> op, response |-> <<>>, status |-> <<>>, err |-> e]

\* the step prefixes of the errors the service returns
ErrCreateNotification == "failed to create SAP notification"
ErrCreateOrderAmbiguous == "failed to create SAP notification"
ErrCreateOrder == "failed to create SAP order"
ErrVerifyRead == "failed to verify order creation"
ErrGetOrder == "failed to get order from SAP"

\* the error of a verification read that names another order
ErrVerification(expected, got) ==
    Errorf("order verification failed: expected " \o Str(expected)
           \o ", got " \o Str(got))

\* the verification read trusted whatever it names
OrderVerifiedAlways(d, oid) == TRUE

\* the comparison of the verification read with the created order id
OrderVerified(d, oid) == d.MaintenanceOrder = oid

\* entry up to the call of CreateNotification
ProcessMaintenanceOrderEvent(e) ==
    /\ pc \in {"idle", "done"}
    /\ event' = e
    /\ notificationReq' = ConvertMaintenanceOrderEventToNotificationRequest(e)
    /\ notificationResp' = <<>>
    /\ notificationID' = <<>>
    /\ orderReq' = ZeroOrderRequest
    /\ orderID' = <<>>
    /\ orderResp' = <<>>
    /\ verifyResp' = <<>>
    /\ err' = NoError
    /\ ret' = NoReturn
    /\ calls' = <<Call("CreateNotification", <<>>)>>
    /\ inflight' = inflight \cup {Call("CreateNotification", <<>>)}
    /\ pc' = "CreateNotification"
    /\ requests' = 0
    /\ doomed' = ctxDone
    /\ UNCHANGED <<roundTrip, config, ctxDone, simulatorMode, clock, elapsed, pinned, kept, outbox>>

\* CreateNotification returns and its error is not looked at: the order is
\* created with whatever notification id there is
CreateNotificationReturnIgnoresError ==
    /\ pc = "CreateNotification"
    /\ \E http \in RoundTrips(simulatorMode, config.BaseURL, <<>>, ctxDone, doomed,
                              NotificationOutcomes) :
         LET s == Sent(http)
             r   == CreateNotification(simulatorMode, notificationReq, clock, http)
             nid == IF r.resp # <<>> THEN r.resp[1].Notification ELSE <<>>
             req == ConvertMaintenanceOrderEventToOrderRequest(event, nid)
             c   == Call("CreateOrder", req.MaintenanceNotification)
         IN  /\ err' = r.err
             /\ requests' = requests + s
             /\ roundTrip' = http
             /\ doomed' = ctxDone
             /\ notificationResp' = r.resp
             /\ notificationID' = nid
             /\ orderReq' = req
             /\ calls' = Append(calls, c)
             /\ inflight' = (inflight \ {Call("CreateNotification", <<>>)}) \cup {c}
             /\ pc' = "CreateOrder"
             /\ UNCHANGED ret
    /\ UNCHANGED <<config, ctxDone, simulatorMode, clock, elapsed, event, notificationReq, orderID,
                   orderResp, verifyResp, pinned, kept, outbox>>

\* CreateNotification returns; on success up to the call of CreateOrder
CreateNotificationReturn ==
    /\ pc = "CreateNotification"
    /\ \E http \in RoundTrips(simulatorMode, config.BaseURL, <<>>, ctxDone, doomed,
                              NotificationOutcomes) :
         LET s == Sent(http)
             r == CreateNotification(simulatorMode, notificationReq, clock, http)
         IN  /\ err' = r.err
             /\ requests' = requests + s
             /\ roundTrip' = http
             /\ doomed' = ctxDone
             /\ notificationResp' = r.resp
             /\ IF r.err # NoError
                THEN /\ ret' = Failure("ProcessMaintenanceOrderEvent",
                                   Wrapf(ErrCreateNotification, r.err))
                     /\ inflight' = inflight \ {Call("CreateNotification", <<>>)}
                     /\ pc' = "done"
                     /\ UNCHANGED <<notificationID, orderReq, calls>>
                ELSE LET nid == r.resp[1].Notification
                         req == ConvertMaintenanceOrderEventToOrderRequest(event, nid)
                         c   == Call("CreateOrder", req.MaintenanceNotification)
                     IN  /\ notificationID' = nid
                         /\ orderReq' = req
                         /\ calls' = Append(calls, c)
                         /\ inflight' = (inflight \ {Call("CreateNotification", <<>>)})
                                          \cup {c}
                         /\ pc' = "CreateOrder"
                         /\ UNCHANGED ret
    /\ UNCHANGED <<config, ctxDone, simulatorMode, clock, elapsed, event, notificationReq, orderID,
                   orderResp, verifyResp, pinned, kept, outbox>>

\* CreateOrder returns; on success up to the call of GetOrder
CreateOrderReturn ==
    /\ pc = "CreateOrder"
    /\ \E http \in RoundTrips(simulatorMode, config.BaseURL, <<>>, ctxDone, doomed,
                              OrderOutcomes) :
         LET s == Sent(http)
             r == CreateOrder(simulatorMode, orderReq, clock, http)
             c == Call("CreateOrder", orderReq.MaintenanceNotification)
         IN  /\ err' = r.err
             /\ requests' = requests + s
             /\ roundTrip' = http
             /\ doomed' = ctxDone
             /\ IF r.err # NoError
                THEN /\ ret' = Failure("ProcessMaintenanceOrderEvent",
                                   Wrapf(ErrCreateOrder, r.err))
                     /\ inflight' = inflight \ {c}
                     /\ pc' = "done"
                     /\ UNCHANGED <<orderResp, orderID, calls>>
                ELSE LET oid == r.resp[1].MaintenanceOrder
                     IN  /\ orderResp' = r.resp
                         /\ orderID' = oid
                         /\ calls' = Append(calls, Call("GetOrder", oid))
                         /\ inflight' = (inflight \ {c}) \cup {Call("GetOrder", oid)}
                         /\ pc' = "Verify"
                         /\ UNCHANGED ret
    /\ UNCHANGED <<config, ctxDone, simulatorMode, clock, elapsed, event, notificationReq,
                   notificationResp, notificationID, orderReq, verifyResp, pinned, kept, outbox>>

\* the verification read returns; the result reports the status CreateOrder
\* returned
VerifyReturnCreateStatus ==
    /\ pc = "Verify"
    /\ \E http \in RoundTrips(simulatorMode, config.BaseURL, orderID, ctxDone,
                              doomed, OrderOutcomes) :
         LET s == Sent(http)
             r == GetOrder(simulatorMode, orderID, clock, http)
         IN  /\ err' = r.err
             /\ requests' = requests + s
             /\ roundTrip' = http
             /\ doomed' = ctxDone
             /\ verifyResp' = r.resp
             /\ ret' =
                  IF r.err # NoError
                  THEN Failure("ProcessMaintenanceOrderEvent",
                               Wrapf(ErrVerifyRead, r.err))
                  ELSE IF ~OrderVerified(r.resp[1], orderID)
                  THEN Failure("ProcessMaintenanceOrderEvent",
                               ErrVerification(orderID, r.resp[1].MaintenanceOrder))
                  ELSE [op       |-> "ProcessMaintenanceOrderEvent",
                        response |-> <<[OrderID        |-> orderID,
                                        NotificationID |-> notificationID,
                                        Status         |-> orderResp[1].OrderStatus,
                                        Message |-> "Maintenance order created successfully",
                                        CreatedAt      |-> clock]>>,
                        status   |-> <<>>,
                        err      |-> NoError]
    /\ inflight' = inflight \ {Call("GetOrder", orderID)}
    /\ pc' = "done"
    /\ UNCHANGED <<config, ctxDone, simulatorMode, clock, elapsed, event, notificationReq,
                   notificationResp, notificationID, orderReq, orderID, orderResp,
                   calls, pinned, kept, outbox>>

\* the verification read returns; the comparison and the result
VerifyReturn ==
    /\ pc = "Verify"
    /\ \E http \in RoundTrips(simulatorMode, config.BaseURL, orderID, ctxDone,
                              doomed, OrderOutcomes) :
         LET s == Sent(http)
             r == GetOrder(simulatorMode, orderID, clock, http)
         IN  /\ err' = r.err
             /\ requests' = requests + s
             /\ roundTrip' = http
             /\ doomed' = ctxDone
             /\ verifyResp' = r.resp
             /\ ret' =
                  IF r.err # NoError
                  THEN Failure("ProcessMaintenanceOrderEvent",
                               Wrapf(ErrVerifyRead, r.err))
                  ELSE IF ~OrderVerified(r.resp[1], orderID)
                  THEN Failure("ProcessMaintenanceOrderEvent",
                               ErrVerification(orderID, r.resp[1].MaintenanceOrder))
                  ELSE [op       |-> "ProcessMaintenanceOrderEvent",
                        response |-> <<[OrderID        |-> orderID,
                                        NotificationID |-> notificationID,
                                        Status         |-> r.resp[1].OrderStatus,
                                        Message |-> "Maintenance order created successfully",
                                        CreatedAt      |-> clock]>>,
                        status   |-> <<>>,
                        err      |-> NoError]
    /\ inflight' = inflight \ {Call("GetOrder", orderID)}
    /\ pc' = "done"
    /\ UNCHANGED <<config, ctxDone, simulatorMode, clock, elapsed, event, notificationReq,
                   notificationResp, notificationID, orderReq, orderID, orderResp,
                   calls, pinned, kept, outbox>>

----------------------------------------------------------------------------
(* MaintenanceService.GetMaintenanceOrderStatus *)

\* entry up to the call of GetOrder
GetMaintenanceOrderStatus(oid) ==
    /\ pc \in {"idle", "done"}
    /\ orderID' = oid
    /\ event' = ZeroEvent
    /\ notificationReq' = ZeroNotificationRequest
    /\ notificationResp' = <<>>
    /\ notificationID' = <<>>
    /\ orderReq' = ZeroOrderRequest
    /\ orderResp' = <<>>
    /\ verifyResp' = <<>>
    /\ err' = NoError
    /\ ret' = NoReturn
    /\ calls' = <<Call("GetOrder", oid)>>
    /\ inflight' = inflight \cup {Call("GetOrder", oid)}
    /\ pc' = "FetchStatus"
    /\ requests' = 0
    /\ doomed' = ctxDone
    /\ UNCHANGED <<roundTrip, config, ctxDone, simulatorMode, clock, elapsed, pinned, kept, outbox>>

\* GetOrder returns; the translation to the status view
GetOrderReturn ==
    /\ pc = "FetchStatus"
    /\ \E http \in RoundTrips(simulatorMode, config.BaseURL, orderID, ctxDone,
                              doomed, OrderOutcomes) :
         LET s == Sent(http)
             r == GetOrder(simulatorMode, orderID, clock, http)
         IN  /\ err' = r.err
             /\ requests' = requests + s
             /\ roundTrip' = http
             /\ doomed' = ctxDone
             /\ verifyResp' = r.resp
             /\ ret' =
                  IF r.err # NoError
                  THEN Failure("GetMaintenanceOrderStatus",
                               Wrapf(ErrGetOrder, r.err))
                  ELSE [op       |-> "GetMaintenanceOrderStatus",
                        response |-> <<>>,
                        status   |-> <<ConvertSAPOrderResponseToStatus(r.resp[1])>>,
                        err      |-> NoError]
    /\ inflight' = inflight \ {Call("GetOrder", orderID)}
    /\ pc' = "done"
    /\ UNCHANGED <<config, ctxDone, simulatorMode, clock, elapsed, event, notificationReq,
                   notificationResp, notificationID, orderReq, orderID, orderResp,
                   calls, pinned, kept, outbox>>

----------------------------------------------------------------------------
(* Specification *)

\* the service called directly: no monitor, no request handler
Next ==
    \/ Tick /\ UNCHANGED callerVars
    \/ (\E e \in Events : ProcessMaintenanceOrderEvent(e)) /\ UNCHANGED callerVars
    \/ CreateNotificationReturn /\ UNCHANGED callerVars
    \/ CreateOrderReturn /\ UNCHANGED callerVars
    \/ VerifyReturn /\ UNCHANGED callerVars
    \/ (\E oid \in FetchIDs : GetMaintenanceOrderStatus(oid)) /\ UNCHANGED callerVars
    \/ GetOrderReturn /\ UNCHANGED callerVars

Spec == Init /\ [][Next]_vars

----------------------------------------------------------------------------
(* The simulator observed over time: a caller keeps the order a GetOrder    *)
(* returned and compares it with what later calls return                    *)

Observe ==
    /\ pc = "done"
    /\ pinned = <<>>
    /\ verifyResp # <<>>
    /\ pinned' = verifyResp
    /\ UNCHANGED <<roundTrip, config, ctxDone, simulatorMode, clock, elapsed, pc, event, notificationReq,
                   notificationResp, notificationID, orderReq, orderID, orderResp,
                   verifyResp, err, ret, calls, inflight, requests, doomed, kept,
                   outbox>>

InitSim == Init /\ simulatorMode /\ config.BaseURL = "simulator"

NextSim == Next \/ (Observe /\ UNCHANGED callerVars)

SpecSim == InitSim /\ [][NextSim]_vars

----------------------------------------------------------------------------
(* The translators observed over time: a caller keeps the requests one      *)
(* submission was translated to and compares them with later translations   *)

\* the order request of the running submission has been made
OrderRequestMade ==
    \/ pc \in {"CreateOrder", "Verify"}
    \/ pc = "done" /\ ret.op = "ProcessMaintenanceOrderEvent" /\ Len(calls) >= 2

Keep ==
    /\ kept = <<>>
    /\ OrderRequestMade
    /\ kept' = <<[event |-> event, notificationID |-> notificationID,
                  notificationReq |-> notificationReq, orderReq |-> orderReq,
                  at |-> clock]>>
    /\ UNCHANGED <<config, simulatorMode, clock, elapsed, pc, event, notificationReq,
                   notificationResp, notificationID, orderReq, orderID, orderResp,
                   verifyResp, err, ret, calls, inflight, pinned, outbox, requests,
                   ctxDone, doomed, roundTrip>>

InitTranslate ==
    /\ Init
    /\ config.BaseURL \in {"simulator", "https://sap.example.com/odata"}
    /\ ~config.SimulatorMode
    /\ clock = 996

NextTranslate == Next \/ (Keep /\ UNCHANGED callerVars)

SpecTranslate == InitTranslate /\ [][NextTranslate]_vars

----------------------------------------------------------------------------
(* MaintenanceService.MonitorOrderStatus *)

\* the period of the ticker, in seconds
Interval == 30

\* order ids a caller may monitor
MonitorIDs == { <<"4", "0", "1">>, <<"4", "0", "7">>, <<"4", "0", "9">> }

\* the error a failing callback returns
CallbackError == <<"digital twin unreachable">>

\* callbacks a caller may pass: nil, one that succeeds, one that fails
Callbacks == { <<>>, <<NoError>>, <<CallbackError>> }

\* ctx.Err() once ctx.Done() is closed
CtxErr == ContextCanceled

\* the statuses that end monitoring
\* only a closed order ends the monitoring
IsTerminalClosedOnly(st) == st = "CLSD"

\* every status but the two known open ones ends the monitoring
IsTerminalUnlessOpen(st) == st \notin {"CRTD", "REL"}

IsTerminal(st) == st = "TECO" \/ st = "CLSD"

\* a failed fetch ends the call with the error of the fetch
AfterFetchReturnsOnError(r, cb) ==
    IF r.err # NoError
    THEN [return |-> <<r.err>>, invoke |-> <<>>]
    ELSE IF IsTerminal(r.status[1].Status)
    THEN [return |-> IF cb # <<>> THEN <<cb[1]>> ELSE <<NoError>>,
          invoke |-> IF cb # <<>> THEN r.status ELSE <<>>]
    ELSE [return |-> <<>>, invoke |-> <<>>]

\* the error of the callback is dropped
AfterFetchDropsCallbackError(r, cb) ==
    IF r.err # NoError
    THEN [return |-> <<>>, invoke |-> <<>>]
    ELSE IF IsTerminal(r.status[1].Status)
    THEN [return |-> <<NoError>>,
          invoke |-> IF cb # <<>> THEN r.status ELSE <<>>]
    ELSE [return |-> <<>>, invoke |-> <<>>]

\* the callback is called with every status fetched
AfterFetchInvokesAlways(r, cb) ==
    IF r.err # NoError
    THEN [return |-> <<>>, invoke |-> <<>>]
    ELSE IF IsTerminal(r.status[1].Status)
    THEN [return |-> IF cb # <<>> THEN <<cb[1]>> ELSE <<NoError>>,
          invoke |-> IF cb # <<>> THEN r.status ELSE <<>>]
    ELSE [return |-> <<>>, invoke |-> IF cb # <<>> THEN r.status ELSE <<>>]

\* the body of the ticker case once GetMaintenanceOrderStatus has returned r:
\* the view the callback is called with (a pointer) and what the call returns
\* (a pointer to an error; nil while the loop goes on)
AfterFetch(r, cb) ==
    IF r.err # NoError
    THEN [return |-> <<>>, invoke |-> <<>>]
    ELSE IF IsTerminal(r.status[1].Status)
    THEN [return |-> IF cb # <<>> THEN <<cb[1]>> ELSE <<NoError>>,
          invoke |-> IF cb # <<>> THEN r.status ELSE <<>>]
    ELSE [return |-> <<>>, invoke |-> <<>>]

\* entry: the ticker is started and the loop reaches its select
MonitorOrderStatus(oid, cb) ==
    /\ monPc = "idle"
    /\ monOrder' = oid
    /\ callback' = cb
    /\ ticking' = TRUE
    /\ tickC' = 0
    /\ monPc' = "select"
    /\ UNCHANGED <<serviceVars, handlerVars, schedVars, plantVars, ticks, observed, invoked, monRet>>

\* the caller cancels, or the deadline of the context passes
Cancel ==
    /\ ~ctxDone
    /\ ctxDone' = TRUE
    /\ UNCHANGED <<roundTrip, config, simulatorMode, clock, elapsed, pc, event, notificationReq,
                   notificationResp, notificationID, orderReq, orderID, orderResp,
                   verifyResp, err, ret, calls, inflight, pinned, kept, outbox, requests, doomed,
                   monitorVars, handlerVars, schedVars, plantVars>>

\* a ticker whose channel keeps every tick until it is received
TickerFiresQueues ==
    /\ ticking
    /\ ticks < MaxTicks
    /\ ticks' = ticks + 1
    /\ tickC' = tickC + 1
    /\ clock' = clock + Interval
    /\ UNCHANGED <<roundTrip, config, simulatorMode, elapsed, pc, event, notificationReq,
                   notificationResp, notificationID, orderReq, orderID, orderResp,
                   verifyResp, err, ret, calls, inflight, pinned, kept, outbox, requests, ctxDone,
                   doomed, monPc, monOrder, callback, ticking, observed, invoked,
                   monRet, handlerVars, schedVars, plantVars>>

\* a period of the ticker elapses: a tick is sent unless one is waiting
TickerFires ==
    /\ ticking
    /\ ticks < MaxTicks
    /\ ticks' = ticks + 1
    /\ tickC' = 1
    /\ clock' = clock + Interval
    /\ UNCHANGED <<roundTrip, config, simulatorMode, elapsed, pc, event, notificationReq,
                   notificationResp, notificationID, orderReq, orderID, orderResp,
                   verifyResp, err, ret, calls, inflight, pinned, kept, outbox, requests, ctxDone,
                   doomed, monPc, monOrder, callback, ticking, observed, invoked,
                   monRet, handlerVars, schedVars, plantVars>>

\* select takes the case of ctx.Done(): return ctx.Err(), the deferred Stop
MonitorSelectDone ==
    /\ monPc = "select"
    /\ ctxDone
    /\ monRet' = <<CtxErr>>
    /\ ticking' = FALSE
    /\ monPc' = "returned"
    /\ UNCHANGED <<serviceVars, handlerVars, schedVars, plantVars, monOrder, callback, tickC, ticks, observed,
                   invoked>>

\* select takes the case of ticker.C, up to the call of GetOrder; when both
\* cases are ready select takes either
MonitorSelectTick ==
    /\ monPc = "select"
    /\ tickC = 1
    /\ tickC' = 0
    /\ GetMaintenanceOrderStatus(monOrder)
    /\ monPc' = "fetching"
    /\ UNCHANGED <<handlerVars, schedVars, plantVars, monOrder, callback, ticking, ticks, observed, invoked,
                   monRet>>

\* GetMaintenanceOrderStatus returns: the rest of the ticker case
MonitorFetchReturn ==
    /\ monPc = "fetching"
    /\ GetOrderReturn
    /\ LET a == AfterFetch(ret', callback)
       IN  /\ observed' = Append(observed,
                              [ok     |-> ret'.err = NoError,
                               status |-> IF ret'.err = NoError
                                          THEN ret'.status[1].Status ELSE "",
                               done   |-> ctxDone])
           /\ invoked' = IF a.invoke # <<>>
                         THEN Append(invoked, [view |-> a.invoke[1], done |-> ctxDone])
                         ELSE invoked
           /\ monRet' = a.return
           /\ ticking' = (a.return = <<>>)
           /\ monPc' = IF a.return = <<>> THEN "select" ELSE "returned"
    /\ UNCHANGED <<handlerVars, schedVars, plantVars, monOrder, callback, tickC, ticks>>

InitMonitor ==
    /\ Init
    /\ config.BaseURL = "https://sap.example.com/odata"
    /\ clock = 1755772494

NextMonitor ==
    \/ \E oid \in MonitorIDs, cb \in Callbacks : MonitorOrderStatus(oid, cb)
    \/ Cancel
    \/ TickerFires
    \/ MonitorSelectDone
    \/ MonitorSelectTick
    \/ MonitorFetchReturn

SpecMonitor == InitMonitor /\ [][NextMonitor]_vars

\* the polling demo against the simulator, for order ids of every last digit
\* and one that does not end in a digit
SimMonitorIDs ==
    { <<"4", "0", DigitChars[k]>> : k \in 1..10 } \cup { <<"4", "0", "A">> }

InitMonitorSim == InitMonitor /\ simulatorMode

NextMonitorSim ==
    \/ \E oid \in SimMonitorIDs, cb \in Callbacks : MonitorOrderStatus(oid, cb)
    \/ Cancel
    \/ TickerFires
    \/ MonitorSelectDone
    \/ MonitorSelectTick
    \/ MonitorFetchReturn

SpecMonitorSim == InitMonitorSim /\ [][NextMonitorSim]_vars

----------------------------------------------------------------------------
(* MonitorOrderStatus against a plant system that completes the order: from  *)
(* then on the plant system answers every read, with TECO or CLSD            *)

Settle ==
    /\ ~settled
    /\ settled' = TRUE
    /\ UNCHANGED <<serviceVars, monitorVars, handlerVars, schedVars>>

\* what a read returns once the order is completed
PlantAnswers ==
    settled => (ret'.err = NoError /\ ret'.status[1].Status \in {"TECO", "CLSD"})

LiveMonitorIDs == { <<"4", "0", "1">> }

InitMonitorLive == InitMonitor /\ ~simulatorMode

NextMonitorLive ==
    \/ \E oid \in LiveMonitorIDs, cb \in Callbacks : MonitorOrderStatus(oid, cb)
    \/ Cancel
    \/ Settle
    \/ TickerFires
    \/ MonitorSelectDone
    \/ MonitorSelectTick
    \/ MonitorFetchReturn /\ PlantAnswers

\* the ticker fires every period, the goroutine of the monitor is scheduled,
\* and a read returns: the HTTP client has a timeout
SpecMonitorLive ==
    /\ InitMonitorLive
    /\ [][NextMonitorLive]_vars
    /\ WF_vars(TickerFires)
    /\ WF_vars(MonitorSelectTick)
    /\ WF_vars(MonitorFetchReturn /\ PlantAnswers)

----------------------------------------------------------------------------
(* MaintenanceHandler: the HTTP handlers *)

\* order events with a required field missing
IncompleteEvents ==
    LET e == CHOOSE x \in Events : x.EquipmentID = "10000045"
    IN  { [e EXCEPT !.EquipmentID = ""], [e EXCEPT !.Plant = ""],
          [e EXCEPT !.Description = ""], ZeroEvent }

\* an event that has every required field of its own, and an operation
\* without text
UntextedEvents ==
    LET e == CHOOSE x \in Events : x.EquipmentID = "10000045"
    IN  { [e EXCEPT !.Operations[1].Text = ""] }

\* bodies of POST /maintenance-orders: binds is whether ShouldBindJSON
\* accepts the body, event is what it decodes to
CreateBodies ==
    { [binds |-> FALSE, event |-> ZeroEvent] }
    \cup { [binds |-> TRUE, event |-> e]
             : e \in Events \cup IncompleteEvents \cup UntextedEvents }

\* models.MaintenanceDoneEvent without its optional fields
DoneEvent(oid, st) == [OrderID |-> oid, Status |-> st]

\* bodies of POST /maintenance-done
DoneBodies ==
    { [binds |-> FALSE, event |-> DoneEvent(<<>>, "")] }
    \cup { [binds |-> TRUE, event |-> DoneEvent(oid, st)]
             : oid \in {<<>>, <<"4", "0", "7">>}, st \in {"", "TECO", "REL"} }

\* path parameters of GET /maintenance-orders/:id
PathIDs == { <<>>, <<"4", "0", "1">>, <<"4", "0", "9">>, <<"4", "0", "%">> }

\* validator.Struct(&event) skipping the plant
ValidateOrderEventSkipsPlant(e) ==
    e.EquipmentID # "" /\ e.Description # ""

\* validator.Struct(&event): the fields tagged validate:"required" are set
\* (the operations are not visited: the slice has no dive tag)
ValidateOrderEvent(e) ==
    e.EquipmentID # "" /\ e.Plant # "" /\ e.Description # ""

\* validator.Struct(&event) for a done event
ValidateDoneEvent(e) ==
    e.OrderID # <<>> /\ e.Status # ""

\* c.JSON(code, models.ErrorResponse{...})
ErrorResponse(code, name, details) ==
    [code |-> code, error |-> name, details |-> details]

\* c.JSON(code, body) with a body that is not an error
Response(code) == [code |-> code, error |-> "", details |-> ""]

\* the response to a body that does not bind or does not validate
BadRequest(body) ==
    IF ~body.binds THEN ErrorResponse(400, "INVALID_REQUEST", "invalid character")
    ELSE ErrorResponse(400, "VALIDATION_ERROR", "failed on the 'required' tag")

\* a request as its handler sees it
Request(name, body) == [route |-> name, binds |-> body.binds, event |-> body.event]

\* a handler answers without calling the service: the service has run no
\* operation for this request
Answer(name, body, resp) ==
    /\ handler = ""
    /\ pc \in {"idle", "done"}
    /\ request' = Request(name, body)
    /\ httpResp' = resp
    /\ calls' = <<>>
    /\ requests' = 0
    /\ ret' = NoReturn
    /\ UNCHANGED <<roundTrip, config, simulatorMode, clock, elapsed, pc, event, notificationReq,
                   notificationResp, notificationID, orderReq, orderID, orderResp,
                   verifyResp, err, inflight, pinned, kept, outbox, ctxDone, doomed, handler>>

\* a handler calls the service
Serve(name, body) ==
    /\ handler = ""
    /\ handler' = name
    /\ request' = Request(name, body)
    /\ httpResp' = Response(0)

\* CreateMaintenanceOrder up to the call of ProcessMaintenanceOrderEvent
CreateMaintenanceOrder(body) ==
    /\ IF body.binds /\ ValidateOrderEvent(body.event)
       THEN /\ Serve("CreateMaintenanceOrder", body)
            /\ ProcessMaintenanceOrderEvent(body.event)
       ELSE Answer("CreateMaintenanceOrder", body, BadRequest(body))
    /\ UNCHANGED <<monitorVars, schedVars, plantVars>>

\* CreateMaintenanceOrder once ProcessMaintenanceOrderEvent has returned
CreateMaintenanceOrderReturn ==
    /\ handler = "CreateMaintenanceOrder"
    /\ pc = "done"
    /\ httpResp' = IF ret.err # NoError
                   THEN ErrorResponse(500, "PROCESSING_ERROR", ErrorString(ret.err))
                   ELSE Response(201)
    /\ handler' = ""
    /\ UNCHANGED <<serviceVars, monitorVars, schedVars, plantVars, request>>

\* GetMaintenanceOrder up to the call of GetMaintenanceOrderStatus
GetMaintenanceOrder(id) ==
    /\ LET body == [binds |-> TRUE, event |-> DoneEvent(id, "")]
       IN  IF id # <<>>
           THEN /\ Serve("GetMaintenanceOrder", body)
                /\ GetMaintenanceOrderStatus(id)
           ELSE Answer("GetMaintenanceOrder", body,
                       ErrorResponse(400, "MISSING_ORDER_ID", ""))
    /\ UNCHANGED <<monitorVars, schedVars, plantVars>>

\* the test GetMaintenanceOrder makes for an order that does not exist
IsNotFound(e) == ErrorString(e) = "SAP API returned status 404"

\* GetMaintenanceOrder once GetMaintenanceOrderStatus has returned
GetMaintenanceOrderReturn ==
    /\ handler = "GetMaintenanceOrder"
    /\ pc = "done"
    /\ httpResp' = IF ret.err # NoError
                   THEN IF IsNotFound(ret.err)
                        THEN ErrorResponse(404, "ORDER_NOT_FOUND", "")
                        ELSE ErrorResponse(500, "RETRIEVAL_ERROR", ErrorString(ret.err))
                   ELSE Response(200)
    /\ handler' = ""
    /\ UNCHANGED <<serviceVars, monitorVars, schedVars, plantVars, request>>

\* HandleMaintenanceDone up to the call of GetMaintenanceOrderStatus in
\* HandleMaintenanceDoneEvent
HandleMaintenanceDone(body) ==
    /\ IF body.binds /\ ValidateDoneEvent(body.event)
       THEN /\ Serve("HandleMaintenanceDone", body)
            /\ GetMaintenanceOrderStatus(body.event.OrderID)
       ELSE Answer("HandleMaintenanceDone", body, BadRequest(body))
    /\ UNCHANGED <<monitorVars, schedVars, plantVars>>

\* a done event is refused while the plant system does not report the order
\* as complete
HandleMaintenanceDoneEventChecksStatus(r) ==
    IF r.err # NoError THEN Wrapf("failed to verify order", r.err)
    ELSE IF ~IsTerminal(r.status[1].Status) THEN <<"order is not complete">>
    ELSE NoError

\* MaintenanceService.HandleMaintenanceDoneEvent once the order was read:
\* the error it returns
HandleMaintenanceDoneEvent(r) ==
    IF r.err # NoError THEN Wrapf("failed to verify order", r.err) ELSE NoError

\* HandleMaintenanceDone once HandleMaintenanceDoneEvent has returned
HandleMaintenanceDoneReturn ==
    /\ handler = "HandleMaintenanceDone"
    /\ pc = "done"
    /\ LET e == HandleMaintenanceDoneEvent(ret)
       IN  httpResp' = IF e # NoError
                       THEN ErrorResponse(500, "PROCESSING_ERROR", ErrorString(e))
                       ELSE Response(200)
    /\ handler' = ""
    /\ UNCHANGED <<serviceVars, monitorVars, schedVars, plantVars, request>>

InitHTTP ==
    /\ Init
    /\ config.BaseURL \in {"simulator", "https://sap.example.com/odata"}
    /\ ~config.SimulatorMode
    /\ clock = 1755772494

\* the service behind its HTTP handlers
NextHTTP ==
    \/ \E body \in CreateBodies : CreateMaintenanceOrder(body)
    \/ CreateNotificationReturn /\ UNCHANGED callerVars
    \/ CreateOrderReturn /\ UNCHANGED callerVars
    \/ VerifyReturn /\ UNCHANGED callerVars
    \/ CreateMaintenanceOrderReturn
    \/ \E id \in PathIDs : GetMaintenanceOrder(id)
    \/ GetOrderReturn /\ UNCHANGED callerVars
    \/ GetMaintenanceOrderReturn
    \/ \E body \in DoneBodies : HandleMaintenanceDone(body)
    \/ HandleMaintenanceDoneReturn

SpecHTTP == InitHTTP /\ [][NextHTTP]_vars

\* the server keeps serving: a handler that can take its next step takes it,
\* and requests keep coming
SpecHTTPFair == SpecHTTP /\ WF_vars(NextHTTP)

----------------------------------------------------------------------------
(* Two goroutines on one service and one client: a caller of                *)
(* ProcessMaintenanceOrderEvent and GetMaintenanceOrderStatus, and a        *)
(* MonitorOrderStatus; the locals and the context of the goroutine that is  *)
(* not running are parked                                                   *)

\* every goroutine reads the locals of another goroutine
LocalIsShared(saved, shared) == shared

\* a local lives on the stack of its goroutine: resumed, the goroutine reads
\* what it left there, not what the other goroutine wrote meanwhile
Local(saved, shared) == saved

\* the scheduler suspends the running goroutine and resumes the other one
Switch ==
    /\ running' = IF running = "caller" THEN "monitor" ELSE "caller"
    /\ parked' = Frame
    /\ pc' = Local(parked.pc, pc)
    /\ event' = Local(parked.event, event)
    /\ notificationReq' = Local(parked.notificationReq, notificationReq)
    /\ notificationResp' = Local(parked.notificationResp, notificationResp)
    /\ notificationID' = Local(parked.notificationID, notificationID)
    /\ orderReq' = Local(parked.orderReq, orderReq)
    /\ orderID' = Local(parked.orderID, orderID)
    /\ orderResp' = Local(parked.orderResp, orderResp)
    /\ verifyResp' = Local(parked.verifyResp, verifyResp)
    /\ err' = Local(parked.err, err)
    /\ ret' = Local(parked.ret, ret)
    /\ calls' = Local(parked.calls, calls)
    /\ inflight' = Local(parked.inflight, inflight)
    /\ requests' = Local(parked.requests, requests)
    /\ ctxDone' = Local(parked.ctxDone, ctxDone)
    /\ doomed' = Local(parked.doomed, doomed)
    /\ roundTrip' = Local(parked.roundTrip, roundTrip)
    /\ UNCHANGED <<config, simulatorMode, clock, elapsed, pinned, kept, outbox,
                   monitorVars, handlerVars, plantVars>>

\* the steps of the calling goroutine and of the monitoring goroutine
AsCaller(step) == running = "caller" /\ step /\ UNCHANGED callerVars
AsMonitor(step) == running = "monitor" /\ step

ConcurrentEvents == { e \in Events : Len(e.Operations) = 1 }
ConcurrentFetchIDs == { <<"4", "0", "3">>, <<"4", "0", "9">> }
ConcurrentMonitorIDs == { <<"4", "0", "1">>, <<"4", "0", "7">> }
ConcurrentCallbacks == { <<NoError>> }

InitConcurrent ==
    /\ Init
    /\ config = [SimulatorMode |-> TRUE, BaseURL |-> "simulator"]
    /\ clock = 1755772494

NextConcurrent ==
    \/ Switch
    \/ TickerFires
    \/ Cancel
    \/ AsCaller(\E e \in ConcurrentEvents : ProcessMaintenanceOrderEvent(e))
    \/ AsCaller(CreateNotificationReturn)
    \/ AsCaller(CreateOrderReturn)
    \/ AsCaller(VerifyReturn)
    \/ AsCaller(\E oid \in ConcurrentFetchIDs : GetMaintenanceOrderStatus(oid))
    \/ AsCaller(GetOrderReturn)
    \/ AsMonitor(\E oid \in ConcurrentMonitorIDs, cb \in ConcurrentCallbacks :
                    MonitorOrderStatus(oid, cb))
    \/ AsMonitor(MonitorSelectDone)
    \/ AsMonitor(MonitorSelectTick)
    \/ AsMonitor(MonitorFetchReturn)

SpecConcurrent == InitConcurrent /\ [][NextConcurrent]_vars

----------------------------------------------------------------------------
(* One service used for one call after the other: submissions, status reads, *)
(* done events and a MonitorOrderStatus, in any order; the caller keeps an   *)
(* order it has read                                                         *)

\* no request handler is waiting for the service and no MonitorOrderStatus
\* is running
ServiceFree == handler = "" /\ monPc \in {"idle", "returned"}

SessionEvents == { e \in Events : Len(e.Operations) = 1 }
SessionIDs == { <<"4", "0", "1">>, <<"4", "0", "9">> }
SessionDoneBodies ==
    { [binds |-> TRUE, event |-> DoneEvent(<<"4", "0", "9">>, "TECO")] }

\* what the plant system of this session answers: it is unreachable, or it
\* does not know the order, or it answers with an order that is released or
\* technically complete
SessionOrders ==
    { d \in LiveOrders : /\ d.Operations = <<>>
                         /\ d.OrderStatus \in {"REL", "TECO"}
                         /\ d.MaintenanceOrder = <<"4", "0", "9">> => d.OrderStatus = "TECO" }

SessionAnswers ==
    LET h == roundTrip'
    IN  \/ h.kind \in {"none", "newRequestErr"}
        \/ h.kind = "sendErr"
             /\ h.cause \in {ContextCanceled, <<"dial tcp: connection refused">>}
        \/ h.kind = "response" /\ h.code = 404 /\ h.raw = "Not Found"
        \/ h.kind = "response" /\ h.code \in {200, 201} /\ h.parses
             /\ (h.d \in LiveNotifications \/ h.d \in SessionOrders)

InitSession ==
    /\ Init
    /\ config \in { [SimulatorMode |-> TRUE, BaseURL |-> "simulator"],
                    [SimulatorMode |-> FALSE, BaseURL |-> "https://sap.example.com/odata"] }
    /\ clock = 1755772494

NextSession ==
    \/ ServiceFree /\ (\E e \in SessionEvents : ProcessMaintenanceOrderEvent(e))
         /\ UNCHANGED callerVars
    \/ CreateNotificationReturn /\ SessionAnswers /\ UNCHANGED callerVars
    \/ CreateOrderReturn /\ SessionAnswers /\ UNCHANGED callerVars
    \/ VerifyReturn /\ SessionAnswers /\ UNCHANGED callerVars
    \/ ServiceFree /\ (\E oid \in SessionIDs : GetMaintenanceOrderStatus(oid))
         /\ UNCHANGED callerVars
    \/ monPc # "fetching" /\ GetOrderReturn /\ SessionAnswers /\ UNCHANGED callerVars
    \/ ServiceFree /\ Observe /\ UNCHANGED callerVars
    \/ ServiceFree /\ (\E body \in SessionDoneBodies : HandleMaintenanceDone(body))
    \/ HandleMaintenanceDoneReturn
    \/ ServiceFree /\ pc \in {"idle", "done"}
         /\ (\E oid \in LiveMonitorIDs : MonitorOrderStatus(oid, <<NoError>>))
    \/ ticking /\ Cancel
    \/ TickerFires
    \/ MonitorSelectDone
    \/ MonitorSelectTick
    \/ MonitorFetchReturn /\ SessionAnswers

SpecSession == InitSession /\ [][NextSession]_vars

----------------------------------------------------------------------------
(* Properties *)

\* the client methods of a call trace
Ops(cs) == [i \in 1..Len(cs) |-> cs[i].op]

IsPrefix(a, b) == Len(a) <= Len(b) /\ a = SubSeq(b, 1, Len(a))

SubmitOrderTrace == <<"CreateNotification", "CreateOrder", "GetOrder">>

\* the caller is inside ProcessMaintenanceOrderEvent or has its result
InSubmit == \/ pc \in {"CreateNotification", "CreateOrder", "Verify"}
            \/ pc = "done" /\ ret.op = "ProcessMaintenanceOrderEvent"

\* ProcessMaintenanceOrderEvent has returned
SubmitReturned == pc = "done" /\ ret.op = "ProcessMaintenanceOrderEvent"

\* GetMaintenanceOrderStatus has returned
FetchReturned == pc = "done" /\ ret.op = "GetMaintenanceOrderStatus"

\* the table of section 4.1, by last character
TableStatus(oid) ==
    IF oid = <<>> THEN "CRTD"
    ELSE IF oid[Len(oid)] \in {"3", "4", "5"} THEN "REL"
    ELSE IF oid[Len(oid)] \in {"6", "7", "8"} THEN "TECO"
    ELSE IF oid[Len(oid)] = "9" THEN "CLSD"
    ELSE "CRTD"

\* instants the clock has shown since Init
PastInstants == (clock - elapsed)..clock

\* C1: during one ProcessMaintenanceOrderEvent the gateway calls issued so far
\* are a prefix of create-notification, create-order, get-order (so in that
\* order, each at most once), at most one call is in flight and it is the
\* last one issued, the create-order request carries the notification id of
\* the create-notification response, and the result's notificationId is that id
C1_Sequencing ==
    InSubmit =>
        /\ IsPrefix(Ops(calls), SubmitOrderTrace)
        /\ Cardinality(inflight) <= 1
        /\ inflight \subseteq {calls[Len(calls)]}
        /\ Len(calls) >= 2 =>
              /\ notificationResp # <<>>
              /\ calls[2].arg = notificationResp[1].Notification
              /\ orderReq.MaintenanceNotification = notificationResp[1].Notification
        /\ ret.response # <<>> =>
              ret.response[1].NotificationID = notificationResp[1].Notification

C1_Witness ==
    /\ SubmitReturned
    /\ ret.response # <<>>
    /\ Ops(calls) = SubmitOrderTrace
    /\ notificationResp[1].Notification # <<>>
    /\ calls[2].arg = notificationResp[1].Notification

\* C2: CreateOrder is called only after CreateNotification has returned a
\* response; while there is no notification response (the call is running or
\* has failed) the only gateway call is the create-notification itself; the
\* notification id goes to exactly one CreateOrder call
C2_OrderNeedsNotification ==
    InSubmit =>
        /\ \A i \in 1..Len(calls) :
              calls[i].op = "CreateOrder" =>
                  /\ notificationResp # <<>>
                  /\ i > 1 /\ calls[1].op = "CreateNotification"
                  /\ calls[i].arg = notificationResp[1].Notification
        /\ notificationResp = <<>> => Ops(calls) = <<"CreateNotification">>
        /\ Cardinality({i \in 1..Len(calls) : calls[i].op = "CreateOrder"}) <= 1
        /\ (notificationResp # <<>> /\ pc # "CreateNotification") =>
              Cardinality({i \in 1..Len(calls) : calls[i].op = "CreateOrder"}) = 1

C2_Witness ==
    /\ SubmitReturned
    /\ notificationResp = <<>>
    /\ err # NoError
    /\ ret.err # NoError
    /\ Ops(calls) = <<"CreateNotification">>

\* errors the live client can return from GetOrder, bare or with a step prefix
GatewayErrors ==
    LET bare == { GetOrder(FALSE, <<>>, 0, h).err : h \in OrderOutcomes } \ {NoError}
    IN  bare \cup { <<p \o ": " \o e[1]>> \o e :
                      p \in {"failed to create SAP notification",
                             "failed to create SAP order",
                             "failed to verify order creation",
                             "failed to get order from SAP"},
                      e \in bare }

\* C3: when the verification read names another order than create-order did,
\* ProcessMaintenanceOrderEvent returns no response and an error that says
\* so, which is not a gateway error and wraps none, and exactly the three
\* calls were made, none left running
C3_VerificationMismatch ==
    (/\ SubmitReturned
     /\ verifyResp # <<>>
     /\ verifyResp[1].MaintenanceOrder # orderResp[1].MaintenanceOrder) =>
        /\ ret.response = <<>>
        /\ ret.err = <<"order verification failed: expected "
                       \o Str(orderResp[1].MaintenanceOrder) \o ", got "
                       \o Str(verifyResp[1].MaintenanceOrder)>>
        /\ Unwrap(ret.err) = NoError
        /\ ret.err \notin GatewayErrors
        /\ Ops(calls) = SubmitOrderTrace
        /\ inflight = {}

C3_Witness ==
    /\ SubmitReturned
    /\ verifyResp # <<>>
    /\ verifyResp[1].MaintenanceOrder # orderResp[1].MaintenanceOrder
    /\ ret.err # NoError

\* the step prefix of the n-th gateway call of ProcessMaintenanceOrderEvent
StepPrefix(n) == CASE n = 1 -> "failed to create SAP notification"
                   [] n = 2 -> "failed to create SAP order"
                   [] OTHER -> "failed to verify order creation"

\* C4 as stated: the error ProcessMaintenanceOrderEvent returns is the very
\* error the failing gateway call produced
C4_ReturnsGatewayErrorUnmodified ==
    (SubmitReturned /\ err # NoError) => ret.err = err

\* C4, amended: ProcessMaintenanceOrderEvent stops at the first gateway error
\* and returns no response and an error that wraps it: Unwrap gives the very
\* error of the failing call, and the message is the step's prefix, ": " and
\* that error's message
C4_WrapsGatewayError ==
    (InSubmit /\ err # NoError) =>
        /\ pc = "done"
        /\ inflight = {}
        /\ ret.response = <<>>
        /\ Unwrap(ret.err) = err
        /\ ErrorString(ret.err) = StepPrefix(Len(calls)) \o ": " \o ErrorString(err)

C4_Witness ==
    /\ SubmitReturned
    /\ err # NoError
    /\ Len(calls) = 2
    /\ Unwrap(ret.err) = err
    /\ ret.err # err

\* the number of gateway responses the running operation has received
Responses == (IF notificationResp # <<>> THEN 1 ELSE 0)
             + (IF orderResp # <<>> THEN 1 ELSE 0)
             + (IF verifyResp # <<>> THEN 1 ELSE 0)

\* C5: once a gateway call of ProcessMaintenanceOrderEvent has failed, or the
\* operation has returned an error, the operation is over with nothing in
\* flight, the calls made are a prefix of the three in order, every call
\* before the last got a response and the last is the one that failed (or, if
\* no call failed, the third, whose response did not match)
C5_AbortOnFailure ==
    (InSubmit /\ (err # NoError \/ ret.err # NoError)) =>
        /\ pc = "done"
        /\ inflight = {}
        /\ ret.response = <<>>
        /\ IsPrefix(Ops(calls), SubmitOrderTrace)
        /\ err # NoError => Responses = Len(calls) - 1
        /\ err = NoError =>
              /\ Len(calls) = 3 /\ Responses = 3
              /\ verifyResp[1].MaintenanceOrder # orderID

C5_Witness ==
    /\ SubmitReturned
    /\ Ops(calls) = SubmitOrderTrace
    /\ orderResp # <<>>
    /\ err # NoError
    /\ ret.err # NoError

\* the step that failed, from what happened
FailedStep ==
    CASE ret.op = "GetMaintenanceOrderStatus" -> "status fetch"
      [] ret.op # "GetMaintenanceOrderStatus" /\ Len(calls) = 1 -> "notification creation"
      [] ret.op # "GetMaintenanceOrderStatus" /\ Len(calls) = 2 -> "order creation"
      [] ret.op # "GetMaintenanceOrderStatus" /\ Len(calls) > 2 /\ err # NoError ->
            "verification read"
      [] OTHER -> "verification mismatch"

\* the steps an error value names, from the error alone
StepsNamedBy(e) ==
    { st \in {"notification creation", "order creation", "verification read",
              "status fetch", "verification mismatch"} :
        \/ /\ st = "notification creation" /\ Len(e) >= 2
           /\ e[1] = "failed to create SAP notification: " \o e[2]
        \/ /\ st = "order creation" /\ Len(e) >= 2
           /\ e[1] = "failed to create SAP order: " \o e[2]
        \/ /\ st = "verification read" /\ Len(e) >= 2
           /\ e[1] = "failed to verify order creation: " \o e[2]
        \/ /\ st = "status fetch" /\ Len(e) >= 2
           /\ e[1] = "failed to get order from SAP: " \o e[2]
        \/ /\ st = "verification mismatch" /\ Len(e) = 1
           /\ \E a, b \in LiveOrderIDs :
                 e[1] = "order verification failed: expected " \o Str(a)
                        \o ", got " \o Str(b) }

\* C6: an error returned by ProcessMaintenanceOrderEvent or by
\* GetMaintenanceOrderStatus names exactly one step, the one that failed
C6_FailingStepIdentifiable ==
    (pc = "done" /\ ret.err # NoError) => StepsNamedBy(ret.err) = {FailedStep}

C6_Witness ==
    /\ FetchReturned
    /\ ret.err # NoError
    /\ StepsNamedBy(ret.err) = {"status fetch"}

SansTimestamps(d) == [d EXCEPT !.MaintOrdBasicStartDateTime = <<>>,
                               !.MaintOrdBasicEndDateTime = <<>>]

InNamespace(id, ns) ==
    /\ Len(id) = 9
    /\ SubSeq(id, 1, 6) = ns
    /\ \A i \in 7..9 : id[i] \in {DigitChars[k] : k \in 1..10}
    /\ \E t \in PastInstants : ParseDigits(SubSeq(id, 7, 9)) = t % 1000

\* C10: with the simulator, a notification id is 200000 and three digits, an
\* order id is 400000 and three digits, the digits being the Unix time modulo
\* 1000, and the order id ProcessMaintenanceOrderEvent returns is not empty
C10_IdNamespaces ==
    simulatorMode =>
        /\ notificationResp # <<>> =>
              InNamespace(notificationResp[1].Notification,
                          <<"2", "0", "0", "0", "0", "0">>)
        /\ orderResp # <<>> =>
              InNamespace(orderResp[1].MaintenanceOrder,
                          <<"4", "0", "0", "0", "0", "0">>)
        /\ ret.response # <<>> =>
              /\ ret.response[1].OrderID # <<>>
              /\ InNamespace(ret.response[1].OrderID,
                             <<"4", "0", "0", "0", "0", "0">>)

C10_Witness ==
    /\ simulatorMode
    /\ SubmitReturned
    /\ ret.response # <<>>
    /\ clock >= 1000
    /\ ret.response[1].OrderID = <<"4", "0", "0", "0", "0", "0", "0", "0", "1">>
    /\ notificationResp[1].Notification =
          <<"2", "0", "0", "0", "0", "0", "9", "9", "9">>

----------------------------------------------------------------------------
(* Properties of MonitorOrderStatus *)

\* the statuses the specification calls terminal
TerminalStatuses == {"TECO", "CLSD"}

\* the fetches of the monitor that returned a terminal status
TerminalFetches == {i \in 1..Len(observed) :
                      observed[i].ok /\ observed[i].status \in TerminalStatuses}

\* the monitor has returned
MonitorReturned == monPc = "returned"

\* C11: a terminal status fetched while the call is not cancelled is the last
\* fetch of the call: it is the first terminal status fetched, the call has
\* returned with no gateway call in flight, and a callback that was supplied
\* has been called exactly once, with the view of that fetch; in every state
\* the callback has been called at most once and only with a view whose
\* status is TECO or CLSD
C11_TerminalEndsMonitoring ==
    /\ Len(invoked) <= 1
    /\ \A k \in 1..Len(invoked) : invoked[k].view.Status \in TerminalStatuses
    /\ \A i \in TerminalFetches :
          ~observed[i].done =>
             /\ i = Len(observed)
             /\ TerminalFetches = {i}
             /\ MonitorReturned
             /\ pc = "done" /\ inflight = {}
             /\ callback # <<>> =>
                   /\ Len(invoked) = 1
                   /\ invoked[1].view = ret.status[1]
                   /\ invoked[1].view.Status = observed[i].status

\* a live monitor that fetched twice without a terminal status and then
\* TECO, and called its callback once
C11_Witness ==
    /\ ~simulatorMode
    /\ ~ctxDone
    /\ Len(observed) = 3
    /\ observed[1].ok /\ observed[1].status = "REL"
    /\ ~observed[2].ok
    /\ observed[3].ok /\ observed[3].status = "TECO"
    /\ Len(invoked) = 1
    /\ MonitorReturned

\* C12: the callback is never called once ctx.Done() is closed
C12_NoCallbackAfterCancel ==
    \A k \in 1..Len(invoked) : ~invoked[k].done

\* C13: a call cancelled before any terminal status was fetched returns
\* ctx.Err(), and once it has returned its ticker is stopped and no fetch is
\* in flight
C13_CancelledReturnsCtxErr ==
    (/\ MonitorReturned
     /\ ctxDone
     /\ \A i \in TerminalFetches : observed[i].done)
       => /\ monRet = <<ContextCanceled>>
          /\ ~ticking
          /\ pc # "FetchStatus"

\* C14: a failed fetch leaves the loop running: after it the call is at its
\* select or in the next fetch, unless ctx.Done() ended it with ctx.Err();
\* a call that has returned has fetched a terminal status or was cancelled;
\* the callback is called for terminal fetches only
C14_FetchErrorsNeverEnd ==
    /\ (observed # <<>> /\ ~observed[Len(observed)].ok) =>
          \/ monPc \in {"select", "fetching"}
          \/ MonitorReturned /\ ctxDone /\ monRet = <<ContextCanceled>>
    /\ MonitorReturned =>
          \/ Len(observed) \in TerminalFetches
          \/ ctxDone /\ monRet = <<ContextCanceled>>
    /\ Len(invoked) <= Cardinality(TerminalFetches)

\* a monitor whose first two fetches failed and whose third returned CLSD
C14_Witness ==
    /\ Len(observed) = 3
    /\ ~observed[1].ok
    /\ ~observed[2].ok
    /\ observed[3].ok /\ observed[3].status = "CLSD"
    /\ MonitorReturned
    /\ monRet = <<NoError>>

\* C15: a call that ended on a terminal fetch returned what its callback
\* returned, success if there was none; a call returns success only after a
\* terminal fetch
C15_ReturnsCallbackResult ==
    /\ (MonitorReturned /\ Len(observed) \in TerminalFetches) =>
          /\ callback = <<<<"digital twin unreachable">>>> =>
                monRet = <<<<"digital twin unreachable">>>>
          /\ callback \in {<<>>, <<NoError>>} => monRet = <<NoError>>
    /\ monRet = <<NoError>> => Len(observed) \in TerminalFetches

\* a monitor whose callback failed on the terminal status
C15_Witness ==
    /\ MonitorReturned
    /\ callback = <<CallbackError>>
    /\ Len(invoked) = 1
    /\ monRet = <<CallbackError>>
    /\ ~ctxDone

----------------------------------------------------------------------------
(* Properties of the HTTP handlers *)

\* the last request has been answered
Answered == handler = "" /\ httpResp.code # 0

\* C16: a GET /maintenance-orders/{id} whose get-order the plant system
\* answered with status 404 is answered 404 ORDER_NOT_FOUND
C16_NotFoundAnswered404 ==
    (/\ Answered
     /\ request.route = "GetMaintenanceOrder"
     /\ calls # <<>>
     /\ err # NoError
     /\ ErrorString(err) \in {"SAP API returned status 404: ",
                              "SAP API returned status 404: Not Found"})
       => /\ httpResp.code = 404
          /\ httpResp.error = "ORDER_NOT_FOUND"

\* a create-order or done-event request that does not bind or lacks a
\* required field
InvalidRequest ==
    \/ /\ request.route = "CreateMaintenanceOrder"
       /\ \/ ~request.binds
          \/ request.event.EquipmentID = ""
          \/ request.event.Plant = ""
          \/ request.event.Description = ""
    \/ /\ request.route = "HandleMaintenanceDone"
       /\ \/ ~request.binds
          \/ request.event.OrderID = <<>>
          \/ request.event.Status = ""

\* C17: an invalid create-order or done-event request is answered 400 by
\* the step that takes it, and no gateway call and no remote request is made
\* for it
C17_InvalidRequestNoGatewayCall ==
    InvalidRequest =>
       /\ Answered
       /\ httpResp.code = 400
       /\ calls = <<>>
       /\ inflight = {}
       /\ requests = 0

\* a create-order request without a plant, answered 400
C17_Witness ==
    /\ request.route = "CreateMaintenanceOrder"
    /\ request.binds
    /\ request.event.Plant = ""
    /\ request.event.EquipmentID # ""
    /\ httpResp = [code |-> 400, error |-> "VALIDATION_ERROR",
                   details |-> "failed on the 'required' tag"]

----------------------------------------------------------------------------
(* Properties of the client *)

\* the gateway calls of the running operation that have returned
Completed == Len(calls) - Cardinality(inflight)

\* the URL of every request of the running operation parses
RequestsCanBeBuilt ==
    /\ config.BaseURL # "://sap.example.com"
    /\ \A k \in 1..Len(calls) :
          calls[k].op = "GetOrder" => \A i \in 1..Len(calls[k].arg) : calls[k].arg[i] # "%"

\* the variant is the one the configuration asks for
VariantAsConfigured ==
    simulatorMode <=>
       (config.SimulatorMode \/ config.BaseURL = "" \/ config.BaseURL = "simulator")

\* C18 as stated: the variant is the configured one, a simulated client has
\* sent no request, a live client has sent one request for every gateway
\* call that returned
C18_LiveSendsOnePerCall ==
    /\ VariantAsConfigured
    /\ simulatorMode => requests = 0
    /\ ~simulatorMode => requests = Completed

\* C18: the variant is the configured one and no step changes it or the
\* configuration; a simulated client has sent no request; a live client has
\* sent one request for every gateway call that returned, unless the URL of
\* the request does not parse, in which case it has sent none
C18_VariantFixed ==
    /\ [](/\ VariantAsConfigured
          /\ simulatorMode => requests = 0
          /\ (~simulatorMode /\ RequestsCanBeBuilt) => requests = Completed
          /\ (~simulatorMode /\ config.BaseURL = "://sap.example.com") => requests = 0)
    /\ [][simulatorMode' = simulatorMode /\ config' = config]_vars

\* a client that is simulated because its base URL is empty, after a whole
\* order submission
C18_Witness ==
    /\ ~config.SimulatorMode
    /\ config.BaseURL = ""
    /\ simulatorMode
    /\ ret.op = "ProcessMaintenanceOrderEvent"
    /\ Len(calls) = 3
    /\ requests = 0

\* C19 as stated: a live client has sent exactly one request for every
\* gateway call that returned
C19_ExactlyOneRequestPerCall ==
    ~simulatorMode => requests = Completed

\* C19: every gateway call sends at most one request, and exactly one when
\* the client is live and the URL of the request parses; a status read is
\* one GetOrder; an order submission calls CreateNotification, CreateOrder
\* and GetOrder at most once each, whatever failed
C19_NoRetries ==
    /\ requests <= Completed
    /\ (~simulatorMode /\ RequestsCanBeBuilt) => requests = Completed
    /\ (pc = "FetchStatus" \/ ret.op = "GetMaintenanceOrderStatus") =>
          /\ Len(calls) = 1
          /\ calls[1].op = "GetOrder"
    /\ (InSubmit \/ ret.op = "ProcessMaintenanceOrderEvent") =>
          /\ Len(calls) <= 3
          /\ \A j, k \in 1..Len(calls) : calls[j].op = calls[k].op => j = k

\* an order submission of a live client whose CreateOrder failed in the
\* transport: two requests, no third call
C19_Witness ==
    /\ ~simulatorMode
    /\ ret.op = "ProcessMaintenanceOrderEvent"
    /\ roundTrip.kind = "sendErr"
    /\ Len(calls) = 2
    /\ requests = 2

\* the gateway call that returned last, and the response it returned
LastCall == calls[Completed]
LastResponse ==
    IF LastCall.op = "CreateNotification" THEN notificationResp
    ELSE IF LastCall.op = "CreateOrder" THEN orderResp
    ELSE verifyResp

\* the status code the specification takes for success
SuccessCode(op) == IF op = "GetOrder" THEN 200 ELSE 201

\* the message of a status-code error
StatusMessage(code, raw) == "SAP API returned status " \o ToString(code) \o ": " \o raw

\* the messages of all status-code errors
StatusMessages ==
    { StatusMessage(o.code, o.raw) : o \in NotificationOutcomes \cup OrderOutcomes }

\* C20: a live gateway call whose round trip ended in a status code other
\* than 201 (200 for GetOrder) returns no response and an error made of the
\* code and the raw body; a call that returns no error had the success code
\* and a body that parses; a transport failure, a failed read and a body
\* that does not parse give an error that is no status-code error
C20_StatusErrors ==
    (~simulatorMode /\ Completed >= 1) =>
       /\ (roundTrip.kind = "response" /\ roundTrip.code # SuccessCode(LastCall.op)) =>
             /\ err = <<StatusMessage(roundTrip.code, roundTrip.raw)>>
             /\ LastResponse = <<>>
       /\ err = NoError =>
             /\ roundTrip.kind = "response"
             /\ roundTrip.code = SuccessCode(LastCall.op)
             /\ roundTrip.parses
             /\ LastResponse = <<roundTrip.d>>
       /\ (\/ roundTrip.kind \in {"sendErr", "readErr"}
           \/ (/\ roundTrip.kind = "response"
               /\ roundTrip.code = SuccessCode(LastCall.op)
               /\ ~roundTrip.parses)) =>
             /\ err # NoError
             /\ ErrorString(err) \notin StatusMessages
             /\ LastResponse = <<>>

\* a status read answered 201 with an order document: an error
C20_Witness ==
    /\ ~simulatorMode
    /\ pc = "done"
    /\ ret.op = "GetMaintenanceOrderStatus"
    /\ roundTrip.kind = "response"
    /\ roundTrip.code = 201
    /\ roundTrip.parses
    /\ err # NoError
    /\ verifyResp = <<>>

----------------------------------------------------------------------------
(* Properties of the translators *)

NotificationRequestMade ==
    \/ pc \in {"CreateNotification", "CreateOrder", "Verify"}
    \/ pc = "done" /\ ret.op = "ProcessMaintenanceOrderEvent"

\* C22: the order request copies equipment, description, plant, functional
\* location, priority and order type of the event, plans in the event's plant,
\* refers to the given notification id, carries a planned start or end exactly
\* when the event has one, and has one operation line per operation of the
\* event, in the event's order and with the event's plant; the notification
\* request copies description, equipment, functional location, plant and
\* priority and is of type M1
C22_FieldByFieldTranslation ==
    /\ NotificationRequestMade =>
         /\ notificationReq.NotificationType = "M1"
         /\ notificationReq.Description = event.Description
         /\ notificationReq.Equipment = event.EquipmentID
         /\ notificationReq.FunctionalLocation = event.FunctionalLocation
         /\ notificationReq.Plant = event.Plant
         /\ notificationReq.Priority = event.Priority
    /\ OrderRequestMade =>
         /\ orderReq.Equipment = event.EquipmentID
         /\ orderReq.Description = event.Description
         /\ orderReq.Plant = event.Plant
         /\ orderReq.FunctionalLocation = event.FunctionalLocation
         /\ orderReq.Priority = event.Priority
         /\ orderReq.MaintenanceOrderType = event.MaintenanceOrderType
         /\ orderReq.MaintenancePlanningPlant = event.Plant
         /\ orderReq.MaintenanceNotification = notificationID
         /\ (orderReq.MaintOrdBasicStartDateTime # <<>>) <=> (event.PlannedStartTime # <<>>)
         /\ (orderReq.MaintOrdBasicEndDateTime # <<>>) <=> (event.PlannedEndTime # <<>>)
         /\ Len(orderReq.ToMaintenanceOrderOperation) = Len(event.Operations)
         /\ \A i \in 1..Len(event.Operations) :
              /\ orderReq.ToMaintenanceOrderOperation[i].OperationText = event.Operations[i].Text
              /\ orderReq.ToMaintenanceOrderOperation[i].WorkCenter = event.Operations[i].WorkCenter
              /\ orderReq.ToMaintenanceOrderOperation[i].Plant = event.Plant

\* the order request of an event with two different operations and both
\* planned times, referring to a notification
C22_Witness ==
    /\ OrderRequestMade
    /\ Len(event.Operations) = 2
    /\ event.Operations[1] # event.Operations[2]
    /\ event.Plant # ""
    /\ event.PlannedStartTime # <<>>
    /\ event.PlannedEndTime # <<>>
    /\ notificationID # <<>>
    /\ Len(orderReq.ToMaintenanceOrderOperation) = 2

----------------------------------------------------------------------------
(* Properties of concurrent calls *)

\* the locals of the monitoring goroutine and of the calling goroutine
MonitorFrame == IF running = "monitor" THEN Frame ELSE parked
CallerFrame == IF running = "caller" THEN Frame ELSE parked

\* what a MonitorOrderStatus running alone on the simulator does: it reads
\* its own order only, and every view it hands over is of that order
MonitorAsAlone ==
    LET f == MonitorFrame
    IN  /\ f.event = ZeroEvent
        /\ \A i \in 1..Len(f.calls) : f.calls[i] = Call("GetOrder", monOrder)
        /\ Len(f.calls) <= 1
        /\ (monPc = "fetching") <=> (f.pc = "FetchStatus")
        /\ f.pc \in {"idle", "FetchStatus", "done"}
        /\ \A i \in 1..Len(observed) :
              observed[i].ok /\ observed[i].status = MockStatus(monOrder)
        /\ \A i \in 1..Len(invoked) :
              /\ invoked[i].view.OrderID = monOrder
              /\ invoked[i].view.Status = MockStatus(monOrder)

\* what a submission running alone on the simulator does
SubmitAsAlone ==
    LET f == CallerFrame
        n == Len(f.calls)
    IN  (f.pc \in {"CreateNotification", "CreateOrder", "Verify"}
           \/ f.ret.op = "ProcessMaintenanceOrderEvent") =>
        /\ f.event \in ConcurrentEvents
        /\ f.notificationReq = ConvertMaintenanceOrderEventToNotificationRequest(f.event)
        /\ n >= 1 /\ n <= 3
        /\ f.calls[1] = Call("CreateNotification", <<>>)
        /\ n >= 2 =>
             /\ f.calls[2] = Call("CreateOrder", f.notificationID)
             /\ f.orderReq =
                  ConvertMaintenanceOrderEventToOrderRequest(f.event, f.notificationID)
        /\ n >= 3 => f.calls[3] = Call("GetOrder", f.orderID)
        /\ f.pc = "done" =>
             /\ n = 3
             /\ f.ret.err = NoError
             /\ f.ret.response[1].OrderID = f.orderID
             /\ f.ret.response[1].NotificationID = f.notificationID
             /\ f.ret.response[1].Status = MockStatus(f.orderID)

\* what a status read running alone on the simulator does
FetchAsAlone ==
    LET f == CallerFrame
    IN  (f.pc = "FetchStatus" \/ f.ret.op = "GetMaintenanceOrderStatus") =>
        /\ f.orderID \in ConcurrentFetchIDs
        /\ f.calls = <<Call("GetOrder", f.orderID)>>
        /\ f.pc = "done" =>
             /\ f.ret.err = NoError
             /\ f.ret.status[1].OrderID = f.orderID
             /\ f.ret.status[1].Status = MockStatus(f.orderID)

\* C23: under every interleaving of a caller's submissions and status reads
\* with a MonitorOrderStatus on the same service and client, each call makes
\* the gateway calls and gets the result it gets alone, the callback of the
\* monitor only receives views of the order the monitor was started with, a
\* step of one goroutine leaves the locals of the other alone, and no step
\* writes the configuration or the variant of the shared client
C23_ConcurrentCallsIndependent ==
    /\ [](MonitorAsAlone /\ SubmitAsAlone /\ FetchAsAlone)
    /\ [][(running' = running) => (parked' = parked)]_vars
    /\ [][(running' # running) => (parked' = Frame /\ Frame' = parked)]_vars
    /\ [][config' = config /\ simulatorMode' = simulatorMode]_vars

\* a submission waiting for its verification read while the monitor, which
\* has already read its own order once, waits for its next read
C23_Witness ==
    /\ running = "caller"
    /\ pc = "Verify"
    /\ parked.pc = "FetchStatus"
    /\ monPc = "fetching"
    /\ Len(observed) >= 1
    /\ orderID # monOrder
    /\ parked.orderID = monOrder

----------------------------------------------------------------------------
(* Properties of the ticker of MonitorOrderStatus *)

\* the reads of the order this MonitorOrderStatus has started so far
FetchesStarted == Len(observed) + (IF monPc = "fetching" THEN 1 ELSE 0)

\* C24: a MonitorOrderStatus reads the order only in response to a tick and
\* one read at a time: never two reads in flight, no read before the first
\* tick, never more reads than ticks; the ticks that fall into a running read
\* are not queued: at most one tick waits, and every read takes the waiting
\* tick away, so a slow read is followed by at most one immediate read
C24_OneFetchPerTick ==
    /\ [](/\ tickC \in {0, 1}
          /\ Cardinality(inflight) <= 1
          /\ (monPc = "fetching") <=> (inflight # {})
          /\ FetchesStarted + tickC <= ticks
          /\ (ticks = 0) => (observed = <<>> /\ monPc # "fetching"))
    /\ [][(monPc # "fetching" /\ monPc' = "fetching") => (tickC = 1 /\ tickC' = 0)]_vars

\* three periods of the ticker have passed, two of them during the first
\* read, which is still running: one tick waits
C24_Witness ==
    /\ ticks >= 3
    /\ monPc = "fetching"
    /\ observed = <<>>
    /\ tickC = 1

----------------------------------------------------------------------------
(* Properties of the status view *)

\* a status read has returned its view
ViewReturned ==
    /\ pc = "done"
    /\ ret.op = "GetMaintenanceOrderStatus"
    /\ ret.err = NoError

\* a submission has returned its result
SubmissionReturned ==
    /\ pc = "done"
    /\ ret.op = "ProcessMaintenanceOrderEvent"
    /\ ret.err = NoError

\* C25: the status of a view and of a submission result is the very string
\* GetOrder returned, whether or not it is one of CRTD, REL, TECO, CLSD; order
\* id, description, equipment, plant and notification id of the view are the
\* order's, and the view has one entry per operation line, in the same order
C25_StatusVerbatim ==
    /\ SubmissionReturned => ret.response[1].Status = verifyResp[1].OrderStatus
    /\ ViewReturned =>
         LET v == ret.status[1]
             d == verifyResp[1]
         IN  /\ v.Status = d.OrderStatus
             /\ v.OrderID = d.MaintenanceOrder
             /\ v.Description = d.Description
             /\ v.EquipmentID = d.Equipment
             /\ v.Plant = d.Plant
             /\ v.NotificationID = d.MaintenanceNotification
             /\ Len(v.Operations) = Len(d.Operations)
             /\ \A i \in 1..Len(d.Operations) :
                  /\ v.Operations[i].OperationID = d.Operations[i].MaintenanceOrderOperation
                  /\ v.Operations[i].Text = d.Operations[i].OperationText
                  /\ v.Operations[i].Status = d.Operations[i].OperationStatus

\* the view of an order of two operation lines whose status is not one of the
\* four known ones
C25_Witness ==
    /\ ViewReturned
    /\ ret.status[1].Status \notin {"CRTD", "REL", "TECO", "CLSD", ""}
    /\ Len(ret.status[1].Operations) = 2
    /\ ret.status[1].Operations[1].OperationID # ret.status[1].Operations[2].OperationID

\* the timestamp names a second that exists
IsTimestamp(s) ==
    /\ Len(s) = 6
    /\ s[2] \in 1..12
    /\ s[3] \in 1..DaysInMonth(s[1], s[2])
    /\ s[4] \in 0..23 /\ s[5] \in 0..59 /\ s[6] \in 0..59

\* the text is a decimal number
IsDecimal(s) ==
    /\ \A k \in 1..Len(s) : s[k] \in {DigitChars[n] : n \in 1..10} \cup {"."}
    /\ \E k \in 1..Len(s) : s[k] # "."
    /\ Cardinality({k \in 1..Len(s) : s[k] = "."}) <= 1

\* C26: whatever order GetOrder returned, the status read returns a view of
\* it: a start or end that is empty or does not parse is absent in the view,
\* a worked quantity that is empty or does not parse is zero, and the other
\* fields of the view are there all the same
C26_StatusViewNeverFails ==
    (pc = "done" /\ ret.op = "GetMaintenanceOrderStatus" /\ err = NoError) =>
        /\ ret.err = NoError
        /\ Len(ret.status) = 1
        /\ LET v == ret.status[1]
               d == verifyResp[1]
           IN  /\ ~IsTimestamp(d.MaintOrdBasicStartDateTime) => v.ActualStartTime = <<>>
               /\ ~IsTimestamp(d.MaintOrdBasicEndDateTime) => v.ActualEndTime = <<>>
               /\ v.OrderID = d.MaintenanceOrder
               /\ v.Status = d.OrderStatus
               /\ v.Description = d.Description
               /\ Len(v.Operations) = Len(d.Operations)
               /\ \A i \in 1..Len(d.Operations) :
                    /\ ~IsDecimal(d.Operations[i].ActualWorkQuantity)
                         => v.Operations[i].ActualWorkQuantity = 0
                    /\ v.Operations[i].OperationID =
                          d.Operations[i].MaintenanceOrderOperation
                    /\ v.Operations[i].WorkQuantityUnit = d.Operations[i].WorkQuantityUnit

\* the view of an order whose start parses, whose end is 30 February, and
\* whose second operation line has a worked quantity that is no number
C26_Witness ==
    /\ ViewReturned
    /\ ret.status[1].ActualStartTime # <<>>
    /\ verifyResp[1].MaintOrdBasicEndDateTime # <<>>
    /\ ret.status[1].ActualEndTime = <<>>
    /\ Len(ret.status[1].Operations) = 2
    /\ ret.status[1].Operations[1].ActualWorkQuantity = 25
    /\ verifyResp[1].Operations[2].ActualWorkQuantity # <<>>
    /\ ret.status[1].Operations[2].ActualWorkQuantity = 0

----------------------------------------------------------------------------
(* Properties of the server as a whole *)

\* POST /maintenance-done took this event, HandleMaintenanceDoneEvent
\* returned nil and the request was answered 200
DoneAccepted(ev) ==
    /\ Answered
    /\ request.route = "HandleMaintenanceDone"
    /\ request.event = ev
    /\ httpResp.code = 200

\* C27: a maintenance-done event that POST /maintenance-done accepted and
\* processed successfully is eventually forwarded to the Digital Twin
C27_DoneEventForwarded ==
    \A ev \in { b.event : b \in DoneBodies } :
        DoneAccepted(ev) ~> (ev \in outbox)

\* POST /maintenance-orders created this order and answered 201
OrderCreated(oid) ==
    /\ Answered
    /\ request.route = "CreateMaintenanceOrder"
    /\ httpResp.code = 201
    /\ orderID = oid

\* C28: after POST /maintenance-orders has created an order, a
\* MonitorOrderStatus for the id of that order is eventually running
C28_CreatedOrderMonitored ==
    \A oid \in LiveOrderIDs :
        OrderCreated(oid) ~> (monPc \in {"select", "fetching"} /\ monOrder = oid)

----------------------------------------------------------------------------
(* Properties of MonitorOrderStatus against the simulator *)

\* the last character of the order id that is monitored
LastChar == monOrder[Len(monOrder)]

\* C29: against the simulator, a MonitorOrderStatus of an order id that ends
\* in 0-5 or in no digit reads the same status, which is not a terminal one,
\* on every tick, never invokes the callback and never returns nil: it
\* returns only once its context is done, with the context's error; a
\* MonitorOrderStatus of an id that ends in 6-9 invokes its callback with the
\* first status it reads, and returns
C29_SimulatedMonitoring ==
    (simulatorMode /\ monPc # "idle") =>
        /\ LastChar \notin {"6", "7", "8", "9"} =>
              /\ invoked = <<>>
              /\ monRet # <<NoError>>
              /\ \A i \in 1..Len(observed) :
                    /\ observed[i].ok
                    /\ observed[i].status = observed[1].status
                    /\ observed[i].status \notin {"TECO", "CLSD"}
              /\ monPc = "returned" => (ctxDone /\ monRet = <<CtxErr>>)
        /\ (LastChar \in {"6", "7", "8", "9"} /\ observed # <<>>) =>
              /\ Len(observed) = 1
              /\ observed[1].status \in {"TECO", "CLSD"}
              /\ callback # <<>> =>
                    /\ Len(invoked) = 1
                    /\ invoked[1].view.OrderID = monOrder
                    /\ invoked[1].view.Status = observed[1].status
              /\ monPc = "returned"

\* an order ending in 5 read on three ticks, released every time, the
\* monitor still waiting and the callback not invoked
C29_Witness ==
    /\ simulatorMode
    /\ monPc # "idle"
    /\ LastChar = "5"
    /\ callback # <<>>
    /\ Len(observed) >= 3
    /\ observed[3].status = "REL"
    /\ monPc = "select"
    /\ ~ctxDone
    /\ invoked = <<>>

----------------------------------------------------------------------------
(* Properties of MonitorOrderStatus for an order that does not exist *)

\* the plant system answered the last read of the monitor with status 404
LastReadNotFound ==
    /\ monPc # "idle"
    /\ observed # <<>>
    /\ roundTrip.kind = "response"
    /\ roundTrip.code = 404

\* C30 as stated: a read that failed because the order does not exist is not
\* treated like a transient failure: when the first read of a
\* MonitorOrderStatus failed with not-found, no second read is made
C30_NotFoundNotRetried ==
    (LastReadNotFound /\ Len(observed) = 1) => monPc # "fetching"

\* C30: MonitorOrderStatus treats every failed read as transient, not-found
\* included: after reads that failed with not-found the callback has not been
\* invoked for them, the call waits for the next tick or reads again, and it
\* returns only when its context is done, with the error of the context
C30_NotFoundIsTransient ==
    LastReadNotFound =>
        /\ ~observed[Len(observed)].ok
        /\ Len(invoked) < Len(observed)
        /\ monPc \in {"select", "fetching", "returned"}
        /\ (monPc = "returned" /\ \A i \in 1..Len(observed) : ~observed[i].ok) =>
              (ctxDone /\ monRet = <<CtxErr>>)

\* three reads have failed, the last one answered 404, the context is not
\* done and the monitor waits for the next tick
C30_Witness ==
    /\ LastReadNotFound
    /\ Len(observed) >= 3
    /\ \A i \in 1..Len(observed) : ~observed[i].ok
    /\ ~ctxDone
    /\ monPc = "select"
    /\ invoked = <<>>

----------------------------------------------------------------------------
(* Properties of the terminal test of MonitorOrderStatus *)

\* the reads of the monitor that returned a status that is not TECO or CLSD
OpenFetches == {i \in 1..Len(observed) :
                  observed[i].ok /\ observed[i].status \notin TerminalStatuses}

\* C31: a read that returns CRTD, REL, the empty string or a status the
\* monitor does not know leaves the monitor running (it reads again, waits,
\* or returns the error of a context that is done); a read that returns TECO
\* or CLSD is the last read whatever was read before it, in whatever order,
\* and the callback gets the view of that read: the first TECO or CLSD seen
C31_TerminalSetExact ==
    /\ \A i \in OpenFetches :
          \/ i < Len(observed)
          \/ monPc \in {"select", "fetching"}
          \/ monPc = "returned" /\ ctxDone /\ monRet = <<CtxErr>>
    /\ \A i \in TerminalFetches :
          /\ i = Len(observed)
          /\ monPc = "returned"
          /\ \A j \in 1..(i - 1) : j \notin TerminalFetches
          /\ callback # <<>> =>
                /\ Len(invoked) = 1
                /\ invoked[1].view.Status = observed[i].status
    /\ invoked # <<>> => TerminalFetches = {Len(observed)}

\* the plant system reported REL, then CRTD, then CLSD: the callback got CLSD
C31_Witness ==
    /\ Len(observed) = 3
    /\ observed[1].ok /\ observed[1].status = "REL"
    /\ observed[2].ok /\ observed[2].status = "CRTD"
    /\ observed[3].ok /\ observed[3].status = "CLSD"
    /\ Len(invoked) = 1
    /\ invoked[1].view.Status = "CLSD"
    /\ monPc = "returned"

\* the plant system reported the empty status and then a status the monitor
\* does not know: the monitor waits for the next tick
C31_WitnessUnknown ==
    /\ Len(observed) = 2
    /\ observed[1].ok /\ observed[1].status = ""
    /\ observed[2].ok /\ observed[2].status = "teco"
    /\ monPc = "select"
    /\ ~ctxDone

----------------------------------------------------------------------------
(* Progress of MonitorOrderStatus *)

\* C32: when the plant system completes the order while the ticker has
\* periods left, so that every read from then on succeeds with TECO or CLSD,
\* and the context is never done, a MonitorOrderStatus that was given a
\* callback eventually invokes it and returns
C32_MonitorEventuallyReturns ==
    (<>(settled /\ ticks < MaxTicks) /\ []~ctxDone) =>
        ((monPc # "idle" /\ callback # <<>>)
            ~> (monPc = "returned" /\ invoked # <<>>))

\* a monitor whose first read failed, whose second read returned an open
\* order, and whose third read, after the order was completed, ended it
C32_Witness ==
    /\ settled
    /\ ~ctxDone
    /\ Len(observed) = 3
    /\ ~observed[1].ok
    /\ observed[2].ok /\ observed[2].status = "REL"
    /\ observed[3].ok
    /\ monPc = "returned"
    /\ Len(invoked) = 1

----------------------------------------------------------------------------
(* Properties of the result of a submission *)

----------------------------------------------------------------------------
(* Properties of a service used for one call after the other *)

\* the plant system answered the last gateway call with an order
OrderAnswered ==
    roundTrip.kind = "response" /\ roundTrip.code = 200 /\ roundTrip.parses

\* C34: whatever calls came before (submissions, status reads, done events,
\* a MonitorOrderStatus; returned, failed or cancelled), no step writes the
\* configuration or the variant of the client; a call starts with no
\* notification and no order of an earlier call; and what a status read or a
\* submission returns is decided by its argument and by what the gateway
\* answered to it alone
C34_StatelessBetweenCalls ==
    /\ [](/\ pc = "CreateNotification" =>
               /\ notificationResp = <<>> /\ notificationID = <<>>
               /\ orderResp = <<>> /\ orderID = <<>> /\ verifyResp = <<>>
          /\ pc = "FetchStatus" =>
               /\ event = ZeroEvent
               /\ notificationResp = <<>> /\ orderResp = <<>> /\ verifyResp = <<>>
          /\ (pc = "done" /\ ret.op = "GetMaintenanceOrderStatus") =>
               IF simulatorMode
               THEN /\ ret.err = NoError
                    /\ ret.status[1].OrderID = orderID
                    /\ ret.status[1].Status = MockStatus(orderID)
               ELSE /\ (ret.err = NoError) <=> OrderAnswered
                    /\ OrderAnswered =>
                          ret.status[1] = ConvertSAPOrderResponseToStatus(roundTrip.d)
          /\ (SubmissionReturned /\ ~simulatorMode) =>
               /\ OrderAnswered
               /\ ret.response[1].OrderID = roundTrip.d.MaintenanceOrder
               /\ ret.response[1].Status = roundTrip.d.OrderStatus)
    /\ [][config' = config /\ simulatorMode' = simulatorMode]_<<config, simulatorMode>>

\* after a MonitorOrderStatus that was cancelled and a done event, a status
\* read of an order the caller has read before returns the status the plant
\* system reports now, not the one it reported then
C34_Witness ==
    /\ pinned # <<>>
    /\ monPc = "returned"
    /\ ctxDone
    /\ request.route = "HandleMaintenanceDone"
    /\ handler = ""
    /\ ViewReturned
    /\ pinned[1].MaintenanceOrder = orderID
    /\ ret.status[1].Status # pinned[1].OrderStatus

----------------------------------------------------------------------------
(* Properties of the two copies of the translators *)

\* C35: the requests the service made with the translators of package sap
\* are the requests the translators of package models return for the same
\* event and the same notification id
C35_TranslatorCopiesAgree ==
    /\ NotificationRequestMade =>
          notificationReq = models_ConvertMaintenanceOrderEventToNotificationRequest(event)
    /\ OrderRequestMade =>
          orderReq = models_ConvertMaintenanceOrderEventToOrderRequest(event, notificationID)

\* the order request of an event with two operations and planned times
C35_Witness ==
    /\ OrderRequestMade
    /\ Len(event.Operations) = 2
    /\ event.PlannedEndTime # <<>>
    /\ notificationID # <<>>
    /\ orderReq = models_ConvertMaintenanceOrderEventToOrderRequest(event, notificationID)
    /\ orderReq.ToMaintenanceOrderOperation[2].OperationStandardDuration # FormatFloat(0)

----------------------------------------------------------------------------
(* Properties of the validation of operations *)

\* the last request is a create-order request with an operation without text
OperationWithoutText ==
    /\ request.route = "CreateMaintenanceOrder"
    /\ request.binds
    /\ \E i \in 1..Len(request.event.Operations) :
          request.event.Operations[i].Text = ""

\* C36: a create-order request with an operation whose text is empty is
\* answered 400 by the step that takes it, and no gateway call is made for it
C36_OperationTextRequired ==
    OperationWithoutText =>
       /\ Answered
       /\ httpResp.code = 400
       /\ calls = <<>>
       /\ inflight = {}

----------------------------------------------------------------------------
(* Properties of HandleMaintenanceDoneEvent *)

\* POST /maintenance-done has passed a valid event on to the service
DoneEventProcessed ==
    /\ request.route = "HandleMaintenanceDone"
    /\ request.binds
    /\ request.event.OrderID # <<>>
    /\ request.event.Status # ""

\* C37: for a done event the service calls GetOrder once, for the order id of
\* the event, and makes no other gateway call; the event is answered 200
\* exactly when that read succeeded and 500 PROCESSING_ERROR when it failed,
\* whatever status the event carries and whatever order the read returned
C37_DoneEventReadsOrderOnce ==
    DoneEventProcessed =>
       /\ calls = <<Call("GetOrder", request.event.OrderID)>>
       /\ Answered =>
             /\ inflight = {}
             /\ (httpResp.code = 200) <=> (err = NoError)
             /\ (err # NoError) =>
                   (httpResp.code = 500 /\ httpResp.error = "PROCESSING_ERROR")
             /\ (~simulatorMode /\ roundTrip.kind = "response" /\ roundTrip.code = 200
                   /\ roundTrip.parses) => httpResp.code = 200

\* a done event that says REL for an order the plant system reports as
\* created, under another order id: answered 200
C37_Witness ==
    /\ DoneEventProcessed
    /\ Answered
    /\ httpResp.code = 200
    /\ request.event.Status = "REL"
    /\ verifyResp[1].OrderStatus = "CRTD"
    /\ verifyResp[1].MaintenanceOrder # request.event.OrderID

====
